---- MODULE Spec2Model ----
(***************************************************************************)
(* Model of the development-platform controllers of yevginx/devsecops.     *)
(*                                                                         *)
(* Part 1: the DNS controller (dns-controller.py, class DNSController):    *)
(* the watch loop, the event handler, the stale-record sweeper, the        *)
(* cooperative scheduling of the two asyncio tasks, the cluster's services *)
(* and the Route53 hosted zone.                                            *)
(*                                                                         *)
(* Python strings that the code slices or tests by suffix are modelled as  *)
(* sequences of one-character strings, so that env_id[:8] and              *)
(* str.endswith are computed and not assumed.                              *)
(***************************************************************************)
EXTENDS Integers, Sequences, FiniteSets, TLC

(***************************************************************************)
(* Bounds of the model.                                                    *)
(***************************************************************************)
\* number of changes the cluster makes to services (also the largest
\* resourceVersion)
MaxChanges == 3
\* the same in the specification of the liveness of the sweep
MaxDriftChanges == 2
\* length at which the two history logs stop growing
MaxLog == 4
\* number of background tasks of the API that can wait
MaxTasks == 2
\* hours the clock of the operator goes on
MaxClock == 1
\* timestamps older than MaxAge hours are kept as MaxAge hours old
MaxAge == 48
\* hours that pass in one step of the clock
TickHours == 24

(***************************************************************************)
(* Program constants.                                                      *)
(***************************************************************************)
\* env_id[:8]
ShortLen == 8
\* timedelta(hours=24)
GraceHours == 24

\* '.elb.amazonaws.com'
ELB_SUFFIX == <<".","e","l","b",".","a","m","a","z","o","n","a","w","s",".","c","o","m">>
\* self.domain_suffix (DOMAIN_SUFFIX of the deployment; the value is configuration)
domain_suffix == <<"d",".","i","o">>

\* Python's None and the empty string: both are falsy in the code's tests
None == <<>>

(***************************************************************************)
(* Inputs: identities, addresses, services.                                *)
(***************************************************************************)
\* two identities that agree on their first eight characters, as two uuid4
\* strings can
EnvA == <<"a","b","c","1","2","3","4","5","-","1">>
EnvB == <<"a","b","c","1","2","3","4","5","-","2">>
EnvIds == {EnvA, EnvB}

IpAddr == <<"1","0",".","0",".","0",".","1">>
ElbAddr == <<"x">> \o ELB_SUFFIX
\* status.load_balancer.ingress[0] of a service: hostname or ip is set
LbIngress == {[hostname |-> ElbAddr, ip |-> None], [hostname |-> None, ip |-> IpAddr]}
\* status.load_balancer.ingress: empty, or one entry
IngressLists == {<<>>} \cup {<<i>> : i \in LbIngress}

\* the services (all carry app.kubernetes.io/managed-by=dev-platform), in
\* the order a listing returns them
ServiceNames == <<"svc-a", "svc-b", "svc-x">>
Services == {ServiceNames[i] : i \in 1..Len(ServiceNames)}
\* metadata.namespace
NamespaceOf(s) == "dev"
\* metadata.labels.get('environment-id'); svc-x has no such label
LabelOf(s) == CASE s = "svc-a" -> EnvA [] s = "svc-b" -> EnvB [] OTHER -> None
\* the load-balancer statuses a service takes: svc-a any, the other two
\* one address each
IngressOf(s) ==
    CASE s = "svc-a" -> IngressLists
      [] s = "svc-b" -> {<<[hostname |-> ElbAddr, ip |-> None]>>}
      [] OTHER -> {<<[hostname |-> None, ip |-> IpAddr]>>}

(***************************************************************************)
(* Pure functions of the code.                                             *)
(***************************************************************************)
Min(a, b) == IF a < b THEN a ELSE b
Max(a, b) == IF a > b THEN a ELSE b

\* s[:n]
Take(s, n) == SubSeq(s, 1, Min(n, Len(s)))

\* s.endswith(suffix)
EndsWith(s, suffix) ==
    /\ Len(s) >= Len(suffix)
    /\ SubSeq(s, Len(s) - Len(suffix) + 1, Len(s)) = suffix

\* f"{env_id[:8]}.{self.domain_suffix}"
Hostname(env_id) == Take(env_id, ShortLen) \o <<".">> \o domain_suffix

\* 'CNAME' if target.endswith('.elb.amazonaws.com') else 'A'
RecordType(target) == IF EndsWith(target, ELB_SUFFIX) THEN "CNAME" ELSE "A"

\* get_service_ingress(service)
get_service_ingressMutant(service) ==
    IF service.ingress # <<>> THEN service.ingress[1].hostname ELSE None
get_service_ingress(service) ==
    IF service.ingress # <<>>
    THEN LET ingress == service.ingress[1]
         IN  IF ingress.hostname # None THEN ingress.hostname ELSE ingress.ip
    ELSE None

\* f"{namespace}/{service_name}"
ServiceRef(service) == <<service.namespace, "/", service.name>>
\* service_name.split('/', 1)
SplitRef(ref) == [namespace |-> ref[1], name |-> ref[3]]

\* the service object an event or a listing carries
ServiceObject(s, ingress, rv) ==
    [name |-> s, namespace |-> NamespaceOf(s), env_id |-> LabelOf(s),
     ingress |-> ingress, rv |-> rv]

(***************************************************************************)
(* Environment specs and the pure functions of the operator and of the     *)
(* API that turn a spec into object descriptors.                           *)
(***************************************************************************)
\* limits['memory'] of a spec: below, at and above 100 GiB in the three
\* binary units and in plain bytes, and two values without a recognized unit
MemoryLimits ==
    {<<"4","G","i">>, <<"9","9","G","i">>, <<"1","0","0","G","i">>, <<"1","2","8","G","i">>, <<"1","0","2","4","0","0","M","i">>, <<"1","0","2","3","9","9","M","i">>,
     <<"1","0","4","8","5","7","6","0","0","K","i">>, <<"1","0","7","3","7","4","1","8","2","4","0","0">>, <<"1","0","7","3","7","4","1","8","2","3","9","9">>, <<"1","2","8","G","B">>, <<"l","o","t","s">>}

\* a directive of spec.packages: pkg_spec['manager'] is one of the five
\* values of PackageManager, pkg_spec['packages'] here one list per manager
Directive(manager) ==
    [manager |-> manager,
     packages |-> CASE manager = "apt" -> <<"git", "vim">>
                    [] manager = "yum" -> <<"gcc">>
                    [] manager = "conda" -> <<"numpy", "scipy">>
                    [] manager = "pip" -> <<"requests">>
                    [] OTHER -> <<"typescript">>]
\* spec.packages: the lists of at most two directives
PackageLists ==
    LET Managers == {"apt", "yum", "conda", "pip", "npm"}
    IN  {<<>>} \cup {<<Directive(m)>> : m \in Managers}
               \cup {<<Directive(m), Directive(n)>> : m, n \in Managers}

\* the fields of a spec the descriptors depend on
EnvSpecRecord(gpu, memory, packages, ssh, jupyter, vscode) ==
    [gpu |-> gpu, memory |-> memory, packages |-> packages,
     enable_ssh |-> ssh, enable_jupyter |-> jupyter, enable_vscode |-> vscode]

\* the defaults of the fields: no gpu, 4Gi, no packages, ssh only
DefaultSpec == EnvSpecRecord(None, <<"4","G","i">>, <<>>, TRUE, FALSE, FALSE)

\* the specs drawn: every accelerator request with every memory limit,
\* every combination of the three flags, every list of directives
Specs ==
    {EnvSpecRecord(gpu, memory, <<>>, TRUE, FALSE, FALSE) :
         gpu \in {None, <<"1">>}, memory \in MemoryLimits}
    \cup {EnvSpecRecord(None, <<"4","G","i">>, <<>>, ssh, jupyter, vscode) :
              ssh \in BOOLEAN, jupyter \in BOOLEAN, vscode \in BOOLEAN}
    \cup {EnvSpecRecord(None, <<"4","G","i">>, packages, TRUE, FALSE, FALSE) :
              packages \in PackageLists}

Digits == <<"0", "1", "2", "3", "4", "5", "6", "7", "8", "9">>

IsDecimal(s) == s # <<>> /\ \A i \in 1..Len(s) : \E d \in 1..10 : Digits[d] = s[i]

\* A number of bytes is kept as ki * 1024 + rem: Python's integers have no
\* width, and 100 * 1024**3 does not fit 32 bits.
\* int() of a string that is no number raises
ValueError == [ok |-> FALSE, ki |-> 0, rem |-> 0]

\* the value of a string of decimal digits
RECURSIVE Decimal(_)
Decimal(s) ==
    IF s = <<>> THEN [ok |-> TRUE, ki |-> 0, rem |-> 0]
    ELSE LET rest == Decimal(SubSeq(s, 1, Len(s) - 1))
             digit == (CHOOSE d \in 1..10 : Digits[d] = s[Len(s)]) - 1
             low == rest.rem * 10 + digit
         IN  [ok |-> TRUE, ki |-> rest.ki * 10 + low \div 1024, rem |-> low % 1024]

\* int(memory_str[:-2]) * unit, with unit = units_ki * 1024; int(memory_str)
\* for units_ki = 0
int(s, units_ki) ==
    IF ~IsDecimal(s) THEN ValueError
    ELSE IF units_ki = 0 THEN Decimal(s)
    ELSE [ok |-> TRUE, ki |-> (Decimal(s).ki * 1024 + Decimal(s).rem) * units_ki,
          rem |-> 0]

parse_memory(memory_str) ==
    LET number == SubSeq(memory_str, 1, Len(memory_str) - 2)
    IN  IF EndsWith(memory_str, <<"G", "i">>) THEN int(number, 1024 * 1024)
        ELSE IF EndsWith(memory_str, <<"M", "i">>) THEN int(number, 1024)
        ELSE IF EndsWith(memory_str, <<"K", "i">>) THEN int(number, 1)
        ELSE int(memory_str, 0)

\* parse_memory(memory_limit) >= 100 * 1024**3
HighMemory(spec) == parse_memory(spec.memory).ki >= 100 * 1024 * 1024

\* get_node_selector(spec): the memory limit is tested first, the gpu
\* request second; a memory limit that is no quantity raises
get_node_selector(spec) ==
    IF ~parse_memory(spec.memory).ok THEN ValueError
    ELSE [ok |-> TRUE, arch |-> "amd64",
          workload_type |-> IF HighMemory(spec) THEN "high-memory"
                            ELSE IF spec.gpu # None THEN "gpu" ELSE "development"]

Toleration(value) ==
    [key |-> "workload-type", operator |-> "Equal", value |-> value,
     effect |-> "NoSchedule"]

\* get_tolerations(spec): the same three branches, written a second time
get_tolerationsMutant(spec) ==
    IF ~parse_memory(spec.memory).ok THEN ValueError
    ELSE [ok |-> TRUE, tolerations |-> <<Toleration(IF spec.gpu # None THEN "gpu"
                          ELSE IF HighMemory(spec) THEN "high-memory"
                          ELSE "development")>>]
get_tolerations(spec) ==
    IF ~parse_memory(spec.memory).ok THEN ValueError
    ELSE [ok |-> TRUE, tolerations |->
             <<Toleration(IF HighMemory(spec) THEN "high-memory"
                          ELSE IF spec.gpu # None THEN "gpu" ELSE "development")>>]

ServicePort(name, port) == [name |-> name, port |-> port, target_port |-> port]

\* the ports of create_service of the operator: one per enabled flag
Ports(spec) ==
    (IF spec.enable_ssh THEN <<ServicePort("ssh", 22)>> ELSE <<>>)
    \o (IF spec.enable_jupyter THEN <<ServicePort("jupyter", 8888)>> ELSE <<>>)
    \o (IF spec.enable_vscode THEN <<ServicePort("vscode", 8080)>> ELSE <<>>)

\* the ports of create_service of the API: all three, whatever the flags
ApiPorts(spec) ==
    <<ServicePort("ssh", 22), ServicePort("jupyter", 8888), ServicePort("vscode", 8080)>>

\* the init container of a directive of apt or pip
InitContainer(pkg_spec) ==
    [name |-> IF pkg_spec.manager = "apt"
              THEN "install-apt-packages" ELSE "install-pip-packages",
     command |-> IF pkg_spec.manager = "apt"
                 THEN "apt-get update && apt-get install -y" ELSE "pip install",
     packages |-> pkg_spec.packages]

\* init_containers of create_deployment of the operator: the loop appends
\* for the managers apt and pip and passes over every other directive
init_containers(packages) ==
    LET installed == SelectSeq(packages, LAMBDA pkg_spec : pkg_spec.manager \in {"apt", "pip"})
    IN  [i \in 1..Len(installed) |-> InitContainer(installed[i])]

VARIABLES
    \* ---- the cluster ----
    services,        \* service name -> <<>> (absent) or <<object>>
    clusterRV,       \* the cluster's resourceVersion counter
    \* ---- the Route53 hosted zone ----
    zone,            \* hostname -> <<>> or <<[type, value]>>
    \* ---- DNSController ----
    managed_records, \* self.managed_records: a function on the keys present
    record_keys,     \* insertion order of the keys of self.managed_records
    \* ---- the asyncio event loop ----
    running,         \* the task that holds the loop: "watch", "sweep", "none"
    \* ---- start() / watch_services() ----
    wpc,             \* position of the watch task
    stream,          \* events received and not yet handled
    streamOpen,      \* the server still sends on the current subscription
    h,               \* the handler's frame: process_service_event
    \* ---- cleanup_stale_records() ----
    spc,             \* position of the sweeper task
    sw,              \* the sweeper's frame
    \* ---- history ----
    recording,       \* the two logs below are kept (scenario runs only)
    requests,        \* change requests the provider received, in order
    applied,         \* notifications handled, in order
    failed,          \* some provider request has failed
    handled,         \* service name -> resourceVersion of its last handled event
    \* ---- the API backend and the operator ----
    environments,    \* the API's store: identity -> status, "absent" if no record
    objects,         \* the cluster's objects of environments: [kind, namespace]
    bg,              \* background tasks of the API that wait to run
    api,             \* the frame of the API's background task that runs
    opr,             \* the frame of the operator's handler that runs
    resources,       \* the custom resources the operator handles, by uid
    espec,           \* the spec of the environments that are created
    clock,           \* datetime.utcnow() in the operator, in hours
    built            \* program -> kind -> the descriptor built last (history)

vars == <<services, clusterRV, zone, managed_records, record_keys, running,
          wpc, stream, streamOpen, h, spc, sw, recording, requests, applied, failed,
          handled, environments, objects, bg, api, opr, resources, espec, clock, built>>

clusterVars == <<services, clusterRV>>
envVars == <<environments, objects, bg, api, opr, resources, espec, clock, built>>
histVars == <<recording, requests, applied, failed, handled>>

(***************************************************************************)
(* Helpers on state.                                                       *)
(***************************************************************************)
Exists(s) == services[s] # <<>>

\* a log, kept while recording, that stops growing at MaxLog entries
Log(log, x) == IF recording /\ Len(log) < MaxLog THEN Append(log, x) ELSE log

\* self.managed_records[key] = value: a new key goes to the end of the order
DictSetMutant(keys, key) == Append(keys, key)
DictSet(keys, key) == IF \E i \in 1..Len(keys) : keys[i] = key THEN keys ELSE Append(keys, key)
\* del self.managed_records[key]
DictDelKeys(keys, key) == SelectSeq(keys, LAMBDA k : k # key)
DictDel(d, key) == [k \in (DOMAIN d) \ {key} |-> d[k]]

\* the handler's frame: its position, the event, the arguments of the
\* provider call and whether the call returned (ok) or raised
IdleFrame == [pc |-> "idle", event |-> <<>>, hostname |-> None, target |-> None,
              record_type |-> None, ok |-> TRUE]
\* the sweeper's frame; seen and deletes describe the cycle in progress:
\* the entries the iteration met (as recorded then, with the lookup's
\* status and whether the backing service was there) and the DELETE
\* requests issued
IdleSweep == [cutoff |-> 0, scan |-> <<>>, stale_records |-> <<>>,
              hostname |-> None, target |-> None, record_type |-> None,
              seen |-> <<>>, deletes |-> <<>>]

\* a frame of the API's background task or of the operator's handler: the
\* function that runs, its position, the identity, and the cluster calls
\* this run has made with the status each got
\* the uids of the custom resources: one, with the prefix of the API's
\* identities, so that both programs work on the same namespace
ResourceIds == {EnvA}

IdleTask == [fn |-> "none", pc |-> "idle", env_id |-> None, calls |-> <<>>]

\* no environment yet; the environments to come have the given spec
EnvInitOf(spec) ==
    /\ environments = [e \in EnvIds |-> "absent"]
    /\ objects = {}
    /\ bg = <<>>
    /\ api = IdleTask
    /\ opr = IdleTask
    /\ resources = [e \in ResourceIds |-> "absent"]
    /\ espec = spec
    /\ clock = 0
    /\ built = [program \in {"api", "operator"} |->
                   [kind \in {"namespace", "networkpolicy", "pvc", "deployment",
                              "service"} |-> <<>>]]

EnvInit == EnvInitOf(DefaultSpec)

Init ==
    /\ EnvInit
    /\ services = [s \in Services |-> <<>>]
    /\ clusterRV = 0
    /\ zone = [n \in {Hostname(e) : e \in EnvIds} |-> <<>>]
    /\ managed_records = <<>>
    /\ record_keys = <<>>
    /\ running = "watch"
    /\ wpc = "start"
    /\ stream = <<>>
    /\ streamOpen = FALSE
    /\ h = IdleFrame
    /\ spc = "unborn"
    /\ sw = IdleSweep
    /\ recording = FALSE
    /\ requests = <<>>
    /\ applied = <<>>
    /\ failed = FALSE
    /\ handled = [s \in Services |-> 0]


(***************************************************************************)
(* The cluster: services appear, change their load-balancer status and     *)
(* disappear. A watch subscription that is open receives one event per     *)
(* change, carrying the object; without a subscription the event is lost.  *)
(***************************************************************************)
Event(type, object) == [type |-> type, object |-> object]

\* The cluster, the clock and the timers are independent of the two tasks.
\* A handler run and the deletes of a sweep cycle neither read them nor
\* give up the loop, so their steps commute with these moves: the model
\* takes the moves before or after such a burst, not inside it.
InBurst == h.pc # "idle" \/ spc \in {"clean", "delete_call", "delete_ok", "swept", "raised"}

Emit(e) == stream' = IF wpc = "stream" /\ streamOpen THEN Append(stream, e) ELSE stream

ClusterCreate(s, ingress) ==
    /\ ~InBurst
    /\ clusterRV < MaxChanges
    /\ ~Exists(s)
    /\ LET object == ServiceObject(s, ingress, clusterRV + 1)
       IN  /\ services' = [services EXCEPT ![s] = <<object>>]
           /\ Emit(Event("ADDED", object))
    /\ clusterRV' = clusterRV + 1
    /\ UNCHANGED <<envVars, zone, managed_records, record_keys, running, wpc,
                   streamOpen, h, spc, sw, histVars>>

ClusterModify(s, ingress) ==
    /\ ~InBurst
    /\ clusterRV < MaxChanges
    /\ Exists(s)
    /\ services[s][1].ingress # ingress
    /\ LET object == ServiceObject(s, ingress, clusterRV + 1)
       IN  /\ services' = [services EXCEPT ![s] = <<object>>]
           /\ Emit(Event("MODIFIED", object))
    /\ clusterRV' = clusterRV + 1
    /\ UNCHANGED <<envVars, zone, managed_records, record_keys, running, wpc,
                   streamOpen, h, spc, sw, histVars>>

ClusterDelete(s) ==
    /\ ~InBurst
    /\ clusterRV < MaxChanges
    /\ Exists(s)
    /\ LET object == ServiceObject(s, services[s][1].ingress, clusterRV + 1)
       IN  /\ services' = [services EXCEPT ![s] = <<>>]
           /\ Emit(Event("DELETED", object))
    /\ clusterRV' = clusterRV + 1
    /\ UNCHANGED <<envVars, zone, managed_records, record_keys, running, wpc,
                   streamOpen, h, spc, sw, histVars>>

\* list_service_for_all_namespaces(label_selector=...): the services that
\* exist, each as an ADDED event when a stream opens
RECURSIVE Listing(_)
Listing(i) ==
    IF i > Len(ServiceNames) THEN <<>>
    ELSE (IF Exists(ServiceNames[i])
          THEN <<Event("ADDED", services[ServiceNames[i]][1])>>
          ELSE <<>>) \o Listing(i + 1)

(***************************************************************************)
(* Time, in hours. The code compares a created_at with utcnow() minus the  *)
(* grace window and nothing else, so time is measured from the present:    *)
(* utcnow() is 0, a timestamp is zero or negative, and when time passes    *)
(* every timestamp moves back. A handler run or a sweep cycle completes    *)
(* within one tick of the clock.                                           *)
(***************************************************************************)
\* datetime.utcnow()
now == 0

Aged(record_info) ==
    [record_info EXCEPT !.created_at = Max(0 - MaxAge, @ - TickHours),
                        !.last_updated = Max(0 - MaxAge, @ - TickHours)]

Tick ==
    /\ ~InBurst
    /\ spc # "scan"
    /\ managed_records' = [k \in DOMAIN managed_records |-> Aged(managed_records[k])]
    /\ managed_records' # managed_records
    /\ UNCHANGED <<envVars, clusterVars, zone, record_keys, running, wpc, stream,
                   streamOpen, h, spc, sw, histVars>>

(***************************************************************************)
(* The Route53 hosted zone: change_resource_record_sets. An UPSERT sets    *)
(* the record of the name; a DELETE removes the record and is accepted     *)
(* only when type and value match the record there. Every request can      *)
(* also fail (throttling, transport).                                      *)
(***************************************************************************)
Request(action, hostname, target, record_type, env_id, by) ==
    [action |-> action, name |-> hostname, type |-> record_type, value |-> target,
     env_id |-> env_id, by |-> by]

Accepts(req) ==
    \/ req.action = "UPSERT"
    \/ zone[req.name] = <<[type |-> req.type, value |-> req.value]>>

ZoneAfter(req) ==
    IF req.action = "UPSERT"
    THEN [zone EXCEPT ![req.name] = <<[type |-> req.type, value |-> req.value]>>]
    ELSE [zone EXCEPT ![req.name] = <<>>]

\* the call: ok is the outcome
Provider(req, ok) ==
    /\ ok => Accepts(req)
    /\ zone' = IF ok THEN ZoneAfter(req) ELSE zone
    /\ requests' = Log(requests, req @@ [ok |-> ok])
    /\ failed' = (failed \/ ~ok)
    /\ UNCHANGED recording

(***************************************************************************)
(* The event loop. A task runs while it holds the loop and gives it up     *)
(* only where it suspends. Awaiting create_route53_record or               *)
(* delete_route53_record does not suspend: their bodies contain no await   *)
(* (the boto3 call is synchronous).                                        *)
(***************************************************************************)
AwaitSuspendsMutant == TRUE
AwaitSuspends == FALSE

CanRun(task) == running \in {task, "none"}
AfterAwait(task) == IF AwaitSuspends THEN "none" ELSE task


(***************************************************************************)
(* start(): sync_existing_records(), then gather(watch_services(),         *)
(* cleanup_stale_records()).                                               *)
(***************************************************************************)
\* what the log of handled notifications keeps of the call of
\* list_service_for_all_namespaces: its outcome, and the services that
\* existed when it was made
Listed(ok) ==
    [type |-> "LIST", ok |-> ok,
     existing |-> {services[s][1] : s \in {n \in Services : Exists(n)}}]

\* sync_existing_records: the listing, or ApiException (logged)
SyncList(ok) ==
    /\ wpc = "start"
    /\ CanRun("watch")
    /\ stream' = IF ok THEN Listing(1) ELSE <<>>
    /\ applied' = Log(applied, Listed(ok))
    /\ wpc' = "sync"
    /\ UNCHANGED <<envVars, clusterVars, zone, managed_records, record_keys, running,
                   streamOpen, h, spc, sw, recording, requests, failed, handled>>

\* the listing is handled; gather() creates the two tasks, the watcher first
SyncDoneMutant ==
    /\ wpc = "sync"
    /\ CanRun("watch")
    /\ h.pc = "idle"
    /\ wpc' = "open"
    /\ spc' = "init"
    /\ running' = "watch"
    /\ UNCHANGED <<envVars, clusterVars, zone, managed_records, record_keys, stream,
                   streamOpen, h, sw, histVars>>
SyncDone ==
    /\ wpc = "sync"
    /\ CanRun("watch")
    /\ h.pc = "idle"
    /\ stream = <<>>
    /\ wpc' = "open"
    /\ spc' = "init"
    /\ running' = "watch"
    /\ UNCHANGED <<envVars, clusterVars, zone, managed_records, record_keys, stream,
                   streamOpen, h, sw, histVars>>

(***************************************************************************)
(* watch_services()                                                        *)
(***************************************************************************)
\* w.stream(...): a new subscription starts with the services that exist
Subscribe ==
    /\ wpc = "open"
    /\ CanRun("watch")
    /\ stream' = Listing(1)
    /\ streamOpen' = TRUE
    /\ wpc' = "stream"
    /\ running' = "watch"
    /\ UNCHANGED <<envVars, clusterVars, zone, managed_records, record_keys, h, spc,
                   sw, histVars>>

\* timeout_seconds=300: the server ends the stream
StreamTimeout ==
    /\ ~InBurst
    /\ wpc = "stream"
    /\ streamOpen
    /\ streamOpen' = FALSE
    /\ UNCHANGED <<envVars, clusterVars, zone, managed_records, record_keys, running,
                   wpc, stream, h, spc, sw, histVars>>

\* the for loop ends; while True opens the next stream at once
StreamEnd ==
    /\ wpc = "stream"
    /\ CanRun("watch")
    /\ ~streamOpen
    /\ stream = <<>>
    /\ h.pc = "idle"
    /\ wpc' = "open"
    /\ running' = "watch"
    /\ UNCHANGED <<envVars, clusterVars, zone, managed_records, record_keys, stream,
                   streamOpen, h, spc, sw, histVars>>

\* the stream raises: except Exception, then await asyncio.sleep(10)
StreamErrorMutant ==
    /\ wpc = "stream"
    /\ CanRun("watch")
    /\ h.pc = "idle"
    /\ stream' = <<>>
    /\ streamOpen' = FALSE
    /\ wpc' = "exited"
    /\ running' = "none"
    /\ UNCHANGED <<envVars, clusterVars, zone, managed_records, record_keys, h, spc,
                   sw, histVars>>
StreamError ==
    /\ wpc = "stream"
    /\ CanRun("watch")
    /\ h.pc = "idle"
    /\ stream' = <<>>
    /\ streamOpen' = FALSE
    /\ wpc' = "backoff"
    /\ running' = "none"
    /\ UNCHANGED <<envVars, clusterVars, zone, managed_records, record_keys, h, spc,
                   sw, histVars>>

\* the ten seconds pass
BackoffTimer ==
    /\ ~InBurst
    /\ wpc = "backoff"
    /\ wpc' = "wake"
    /\ UNCHANGED <<envVars, clusterVars, zone, managed_records, record_keys, running,
                   stream, streamOpen, h, spc, sw, histVars>>

\* the watcher gets the loop again
BackoffDone ==
    /\ wpc = "wake"
    /\ CanRun("watch")
    /\ wpc' = "open"
    /\ running' = "watch"
    /\ UNCHANGED <<envVars, clusterVars, zone, managed_records, record_keys, stream,
                   streamOpen, h, spc, sw, histVars>>


(***************************************************************************)
(* process_service_event(), create_or_update_dns_record(),                 *)
(* delete_dns_record(): the handler, called from sync_existing_records and *)
(* from the for loop of watch_services. Its positions:                     *)
(*   upsert_call, delete_call  the await of the provider call              *)
(*   upsert_ok, delete_ok      the call returned; the map is written next  *)
(*   upserted, deleted         logger.info after the write                 *)
(*   upsert_raised, delete_raised   logger.error in except Exception       *)
(*   skipped                   an early return                             *)
(***************************************************************************)
\* what the log of handled notifications keeps of an event
Applied(e) ==
    [type |-> e.type, name |-> e.object.name, env_id |-> e.object.env_id,
     addr |-> get_service_ingress(e.object), rv |-> e.object.rv]

\* for event in w.stream(...): the next event is the oldest one received
DequeueMutant(events) ==
    [event |-> events[Len(events)], rest |-> SubSeq(events, 1, Len(events) - 1)]
Dequeue(events) == [event |-> Head(events), rest |-> Tail(events)]

\* if event_type in ['ADDED', 'MODIFIED'] ... elif event_type == 'DELETED'
IsUpsertEventMutant(event_type) == event_type = "ADDED"
IsUpsertEvent(event_type) == event_type \in {"ADDED", "MODIFIED"}
IsDeleteEvent(event_type) == event_type = "DELETED"

\* the arguments of create_route53_record in create_or_update_dns_record
UpsertArgsMutant(env_id, ingress) ==
    [hostname |-> Hostname(env_id), target |-> ingress, record_type |-> "A"]
UpsertArgs(env_id, ingress) ==
    [hostname |-> Hostname(env_id), target |-> ingress,
     record_type |-> RecordType(ingress)]

\* the value stored in self.managed_records[env_id]
UpsertEntry(service, hostname, ingress, t) ==
    [hostname |-> hostname, target |-> ingress, service |-> ServiceRef(service),
     created_at |-> t, last_updated |-> t]

\* the arguments of delete_route53_record in delete_dns_record
DeleteArgsMutant(record_info, service) ==
    [hostname |-> record_info.hostname, target |-> get_service_ingress(service),
     record_type |-> RecordType(get_service_ingress(service))]
DeleteArgs(record_info, service) ==
    [hostname |-> record_info.hostname, target |-> record_info.target,
     record_type |-> RecordType(record_info.target)]

\* create_or_update_dns_record: self.managed_records[env_id] = {...} is
\* reached when create_route53_record returned, and skipped when it raised
StoresEntryMutant(ok) == TRUE
StoresEntry(ok) == ok

\* delete_dns_record up to its await: nothing to call when the service has
\* no label or the map has no entry of the identity, else the arguments
\* taken from the entry
delete_dns_recordMutant(service, records) ==
    IF service.env_id = None THEN <<>>
    ELSE <<UpsertArgs(service.env_id, get_service_ingress(service))>>
delete_dns_record(service, records) ==
    IF service.env_id = None \/ service.env_id \notin DOMAIN records THEN <<>>
    ELSE <<DeleteArgs(records[service.env_id], service)>>

\* delete_dns_record: del self.managed_records[env_id] is reached when
\* delete_route53_record returned, and skipped when it raised
RemovesEntryMutant(ok) == TRUE
RemovesEntry(ok) == ok

Frame(pc, e, args, ok) ==
    [pc |-> pc, event |-> <<e>>, hostname |-> args.hostname, target |-> args.target,
     record_type |-> args.record_type, ok |-> ok]
NoArgs == [hostname |-> None, target |-> None, record_type |-> None]

\* the identity the handler's frame is about
FrameEnv == h.event[1].object.env_id

\* takes the next event and runs the handler up to its first await
HandleEvent ==
    /\ wpc \in {"sync", "stream"}
    /\ CanRun("watch")
    /\ h.pc = "idle"
    /\ stream # <<>>
    /\ LET e == Dequeue(stream).event
           service == e.object
           env_id == service.env_id
           ingress == get_service_ingress(service)
       IN  /\ stream' = Dequeue(stream).rest
           /\ applied' = Log(applied, Applied(e))
           /\ IF IsUpsertEvent(e.type)
              THEN IF env_id = None \/ ingress = None
                   THEN /\ h' = Frame("skipped", e, NoArgs, TRUE)
                        /\ running' = "watch"
                   ELSE /\ h' = Frame("upsert_call", e, UpsertArgs(env_id, ingress), TRUE)
                        /\ running' = AfterAwait("watch")
              ELSE IF IsDeleteEvent(e.type)
                      /\ delete_dns_record(service, managed_records) # <<>>
                   THEN /\ h' = Frame("delete_call", e,
                                      delete_dns_record(service, managed_records)[1], TRUE)
                        /\ running' = AfterAwait("watch")
                   ELSE /\ h' = Frame("skipped", e, NoArgs, TRUE)
                        /\ running' = "watch"
    /\ UNCHANGED <<envVars, clusterVars, zone, managed_records, record_keys, wpc,
                   streamOpen, spc, sw, recording, requests, failed, handled>>

\* create_route53_record: the UPSERT; when it raises, except Exception
UpsertCall(ok) ==
    /\ h.pc = "upsert_call"
    /\ CanRun("watch")
    /\ Provider(Request("UPSERT", h.hostname, h.target, h.record_type, FrameEnv,
                        "handler"), ok)
    /\ h' = [h EXCEPT !.pc = IF StoresEntry(ok) THEN "upsert_ok" ELSE "upsert_raised",
                      !.ok = ok]
    /\ running' = IF ok THEN AfterAwait("watch") ELSE "watch"
    /\ UNCHANGED <<envVars, clusterVars, managed_records, record_keys, wpc, stream,
                   streamOpen, spc, sw, applied, handled>>

\* self.managed_records[env_id] = {...}
UpsertStore ==
    /\ h.pc = "upsert_ok"
    /\ CanRun("watch")
    /\ managed_records' =
           [k \in DOMAIN managed_records \cup {FrameEnv} |->
               IF k = FrameEnv
               THEN UpsertEntry(h.event[1].object, h.hostname, h.target, now)
               ELSE managed_records[k]]
    /\ record_keys' = DictSet(record_keys, FrameEnv)
    /\ h' = [h EXCEPT !.pc = "upserted"]
    /\ running' = "watch"
    /\ UNCHANGED <<envVars, clusterVars, zone, wpc, stream, streamOpen, spc, sw, histVars>>

\* delete_route53_record: the DELETE
DeleteCall(ok) ==
    /\ h.pc = "delete_call"
    /\ CanRun("watch")
    /\ Provider(Request("DELETE", h.hostname, h.target, h.record_type, FrameEnv,
                        "handler"), ok)
    /\ h' = [h EXCEPT !.pc = IF RemovesEntry(ok) THEN "delete_ok" ELSE "delete_raised",
                      !.ok = ok]
    /\ running' = IF ok THEN AfterAwait("watch") ELSE "watch"
    /\ UNCHANGED <<envVars, clusterVars, managed_records, record_keys, wpc, stream,
                   streamOpen, spc, sw, applied, handled>>

\* del self.managed_records[env_id]; KeyError when the key is gone
DeleteStore ==
    /\ h.pc = "delete_ok"
    /\ CanRun("watch")
    /\ IF FrameEnv \in DOMAIN managed_records
       THEN /\ managed_records' = DictDel(managed_records, FrameEnv)
            /\ record_keys' = DictDelKeys(record_keys, FrameEnv)
            /\ h' = [h EXCEPT !.pc = "deleted"]
       ELSE /\ UNCHANGED <<managed_records, record_keys>>
            /\ h' = [h EXCEPT !.pc = "delete_raised"]
    /\ running' = "watch"
    /\ UNCHANGED <<envVars, clusterVars, zone, wpc, stream, streamOpen, spc, sw, histVars>>

\* the handler logs and returns to its caller
HandlerReturn ==
    /\ h.pc \in {"skipped", "upserted", "upsert_raised", "deleted", "delete_raised"}
    /\ CanRun("watch")
    /\ handled' = [handled EXCEPT ![h.event[1].object.name] = h.event[1].object.rv]
    /\ h' = IdleFrame
    /\ running' = "watch"
    /\ UNCHANGED <<envVars, clusterVars, zone, managed_records, record_keys, wpc, stream,
                   streamOpen, spc, sw, recording, requests, applied, failed>>

(***************************************************************************)
(* cleanup_stale_records(): the sweeper task. Its positions:               *)
(*   init    created by gather(), not yet run                              *)
(*   sleep   await asyncio.sleep(3600)                                     *)
(*   ready   the hour has passed; waits for the loop                       *)
(*   scan    the iteration over self.managed_records.items()               *)
(*   clean   the loop over stale_records                                   *)
(*   delete_call, delete_ok   the await of delete_route53_record, the del  *)
(*   swept   the end of the try block                                      *)
(*   raised  logger.error in except Exception                              *)
(***************************************************************************)
\* created_at < cutoff_time
IsOldMutant(created_at, cutoff_time) == created_at > cutoff_time
IsOld(created_at, cutoff_time) == created_at < cutoff_time

\* the arguments of delete_route53_record in cleanup_stale_records
SweepArgs(record_info) ==
    [hostname |-> record_info.hostname, target |-> record_info.target,
     record_type |-> RecordType(record_info.target)]

\* the task starts and reaches await asyncio.sleep(3600)
SweepStart ==
    /\ spc = "init"
    /\ CanRun("sweep")
    /\ spc' = "sleep"
    /\ running' = "none"
    /\ UNCHANGED <<envVars, clusterVars, zone, managed_records, record_keys, wpc,
                   stream, streamOpen, h, sw, histVars>>

\* the hour passes
SweepTimer ==
    /\ ~InBurst
    /\ spc = "sleep"
    /\ spc' = "ready"
    /\ UNCHANGED <<envVars, clusterVars, zone, managed_records, record_keys, running,
                   wpc, stream, streamOpen, h, sw, histVars>>

\* a cycle starts: cutoff_time, stale_records = [], the iteration over
\* self.managed_records.items()
SweepBegin ==
    /\ spc = "ready"
    /\ CanRun("sweep")
    /\ sw' = [IdleSweep EXCEPT !.cutoff = now - GraceHours, !.scan = record_keys]
    /\ spc' = "scan"
    /\ running' = "sweep"
    /\ UNCHANGED <<envVars, clusterVars, zone, managed_records, record_keys, wpc,
                   stream, streamOpen, h, histVars>>

\* what the frame remembers of an entry the iteration met
Seen(env_id, record_info, status) ==
    [env_id |-> env_id, hostname |-> record_info.hostname,
     target |-> record_info.target, created_at |-> record_info.created_at,
     status |-> status, gone |-> ~Exists(SplitRef(record_info.service).name)]

\* one entry of the iteration: read_namespaced_service for an old entry;
\* status is 200, 404, or 500 for any other ApiException, and 0 when the
\* entry is not old and nothing is looked up
SweepCheck(status) ==
    /\ spc = "scan"
    /\ CanRun("sweep")
    /\ sw.scan # <<>>
    /\ LET env_id == Head(sw.scan)
           record_info == managed_records[env_id]
           ref == SplitRef(record_info.service)
       IN  /\ IF IsOld(record_info.created_at, sw.cutoff)
              THEN status \in {IF Exists(ref.name) /\ NamespaceOf(ref.name) = ref.namespace
                               THEN 200 ELSE 404, 500}
              ELSE status = 0
           /\ sw' = [sw EXCEPT !.scan = Tail(@),
                               !.stale_records =
                                   IF status = 404 THEN Append(@, env_id) ELSE @,
                               !.seen = Append(@, Seen(env_id, record_info, status))]
    /\ running' = "sweep"
    /\ UNCHANGED <<envVars, clusterVars, zone, managed_records, record_keys, wpc,
                   stream, streamOpen, h, spc, histVars>>

\* the iteration is over
SweepScanned ==
    /\ spc = "scan"
    /\ CanRun("sweep")
    /\ sw.scan = <<>>
    /\ spc' = "clean"
    /\ running' = "sweep"
    /\ UNCHANGED <<envVars, clusterVars, zone, managed_records, record_keys, wpc,
                   stream, streamOpen, h, sw, histVars>>

\* the next stale entry: record_info = self.managed_records[env_id]
\* (KeyError ends the cycle), then the await of delete_route53_record
SweepNext ==
    /\ spc = "clean"
    /\ CanRun("sweep")
    /\ sw.stale_records # <<>>
    /\ LET env_id == Head(sw.stale_records)
       IN  IF env_id \in DOMAIN managed_records
           THEN /\ sw' = [sw EXCEPT
                              !.hostname = SweepArgs(managed_records[env_id]).hostname,
                              !.target = SweepArgs(managed_records[env_id]).target,
                              !.record_type = SweepArgs(managed_records[env_id]).record_type]
                /\ spc' = "delete_call"
                /\ running' = AfterAwait("sweep")
           ELSE /\ sw' = sw
                /\ spc' = "raised"
                /\ running' = "sweep"
    /\ UNCHANGED <<envVars, clusterVars, zone, managed_records, record_keys, wpc,
                   stream, streamOpen, h, histVars>>

\* cleanup_stale_records: del self.managed_records[env_id] is reached when
\* delete_route53_record returned, and skipped when it raised
SweepRemovesMutant(ok) == TRUE
SweepRemoves(ok) == ok

\* delete_route53_record: the DELETE; when it raises, the outer except
SweepDeleteCall(ok) ==
    /\ spc = "delete_call"
    /\ CanRun("sweep")
    /\ LET req == Request("DELETE", sw.hostname, sw.target, sw.record_type,
                          Head(sw.stale_records), "sweeper")
       IN  /\ Provider(req, ok)
           /\ sw' = [sw EXCEPT !.deletes = Append(@, req)]
    /\ spc' = IF SweepRemoves(ok) THEN "delete_ok" ELSE "raised"
    /\ running' = IF ok THEN AfterAwait("sweep") ELSE "sweep"
    /\ UNCHANGED <<envVars, clusterVars, managed_records, record_keys, wpc, stream,
                   streamOpen, h, applied, handled>>

\* del self.managed_records[env_id]
SweepStore ==
    /\ spc = "delete_ok"
    /\ CanRun("sweep")
    /\ LET env_id == Head(sw.stale_records)
       IN  IF env_id \in DOMAIN managed_records
           THEN /\ managed_records' = DictDel(managed_records, env_id)
                /\ record_keys' = DictDelKeys(record_keys, env_id)
                /\ sw' = [sw EXCEPT !.stale_records = Tail(@), !.hostname = None,
                                    !.target = None, !.record_type = None]
                /\ spc' = "clean"
           ELSE /\ UNCHANGED <<managed_records, record_keys, sw>>
                /\ spc' = "raised"
    /\ running' = "sweep"
    /\ UNCHANGED <<envVars, clusterVars, zone, wpc, stream, streamOpen, h, histVars>>

\* every stale entry is handled: the try block ends
SweepDone ==
    /\ spc = "clean"
    /\ CanRun("sweep")
    /\ sw.stale_records = <<>>
    /\ spc' = "swept"
    /\ running' = "sweep"
    /\ UNCHANGED <<envVars, clusterVars, zone, managed_records, record_keys, wpc,
                   stream, streamOpen, h, sw, histVars>>

\* while True: back to await asyncio.sleep(3600), after the try block or
\* after the except
SweepAgainMutant ==
    /\ spc \in {"swept", "raised"}
    /\ CanRun("sweep")
    /\ sw' = IdleSweep
    /\ spc' = IF spc = "raised" THEN "exited" ELSE "sleep"
    /\ running' = "none"
    /\ UNCHANGED <<envVars, clusterVars, zone, managed_records, record_keys, wpc,
                   stream, streamOpen, h, histVars>>
SweepAgain ==
    /\ spc \in {"swept", "raised"}
    /\ CanRun("sweep")
    /\ sw' = IdleSweep
    /\ spc' = "sleep"
    /\ running' = "none"
    /\ UNCHANGED <<envVars, clusterVars, zone, managed_records, record_keys, wpc,
                   stream, streamOpen, h, histVars>>

(***************************************************************************)
(* The specification.                                                      *)
(***************************************************************************)
ClusterOf(names) ==
    \E s \in names :
        \/ \E ingress \in IngressOf(s) : ClusterCreate(s, ingress)
        \/ \E ingress \in IngressOf(s) : ClusterModify(s, ingress)
        \/ ClusterDelete(s)

Cluster == ClusterOf(Services)

Watcher ==
    \/ \E ok \in BOOLEAN : SyncList(ok)
    \/ SyncDone
    \/ Subscribe
    \/ StreamEnd
    \/ StreamError
    \/ BackoffDone

Handler ==
    \/ HandleEvent
    \/ \E ok \in BOOLEAN : UpsertCall(ok)
    \/ UpsertStore
    \/ \E ok \in BOOLEAN : DeleteCall(ok)
    \/ DeleteStore
    \/ HandlerReturn

Sweeper ==
    \/ SweepStart
    \/ SweepBegin
    \/ \E status \in {0, 200, 404, 500} : SweepCheck(status)
    \/ SweepScanned
    \/ SweepNext
    \/ \E ok \in BOOLEAN : SweepDeleteCall(ok)
    \/ SweepStore
    \/ SweepDone
    \/ SweepAgain

Timers == StreamTimeout \/ BackoffTimer \/ SweepTimer

Next == Cluster \/ Watcher \/ Handler \/ Sweeper \/ Timers \/ Tick

Spec == Init /\ [][Next]_vars


(***************************************************************************)
(* The ordering scenario: process_service_event is given three             *)
(* notifications for one service, added with address x, modified with      *)
(* address y, deleted; the logs are kept.                                  *)
(***************************************************************************)
Script(s, x, y, z) ==
    <<Event("ADDED", ServiceObject(s, x, 1)),
      Event("MODIFIED", ServiceObject(s, y, 2)),
      Event("DELETED", ServiceObject(s, z, 3))>>

InitOrdering ==
    /\ EnvInit
    /\ services = [s \in Services |-> <<>>]
    /\ clusterRV = 0
    /\ zone = [n \in {Hostname(e) : e \in EnvIds} |-> <<>>]
    /\ managed_records = <<>>
    /\ record_keys = <<>>
    /\ running = "watch"
    /\ wpc = "stream"
    /\ stream \in {Script(s, x, y, z) : s \in {"svc-a", "svc-b"},
                                        x \in IngressLists \ {<<>>},
                                        y \in IngressLists \ {<<>>},
                                        z \in IngressLists}
    /\ streamOpen = TRUE
    /\ h = IdleFrame
    /\ spc = "unborn"
    /\ sw = IdleSweep
    /\ recording = TRUE
    /\ requests = <<>>
    /\ applied = <<>>
    /\ failed = FALSE
    /\ handled = [s \in Services |-> 0]

NextOrdering == Handler \/ Tick

SpecOrdering == InitOrdering /\ [][NextOrdering]_vars

(***************************************************************************)
(* Properties.                                                             *)
(***************************************************************************)
HasEntry(env_id) == env_id \in DOMAIN managed_records

\* C1 (ordering): once added(A, x), modified(A, y), deleted(A) have been
\* handled in that order and no provider request has failed, the map has no
\* entry for A and the provider has received exactly UPSERT x, UPSERT y,
\* DELETE y, each with the hostname of A and the record type of its target.
ScriptHandled ==
    /\ recording
    /\ h.pc = "idle"
    /\ stream = <<>>
    /\ Len(applied) = 3
    /\ applied[1].type = "ADDED" /\ applied[2].type = "MODIFIED"
    /\ applied[3].type = "DELETED"
    /\ applied[1].env_id # None
    /\ applied[2].env_id = applied[1].env_id /\ applied[3].env_id = applied[1].env_id
    /\ applied[1].addr # None /\ applied[2].addr # None
    /\ ~failed

Expected(action, env_id, target) ==
    [action |-> action, name |-> Hostname(env_id), type |-> RecordType(target),
     value |-> target, env_id |-> env_id, by |-> "handler", ok |-> TRUE]

C1_Ordering ==
    ScriptHandled =>
        LET A == applied[1].env_id
            x == applied[1].addr
            y == applied[2].addr
        IN  /\ ~HasEntry(A)
            /\ requests = <<Expected("UPSERT", A, x), Expected("UPSERT", A, y),
                            Expected("DELETE", A, y)>>

\* the scenario has run with two different addresses, and the deleted
\* event carries no address at all
C1_Witness ==
    /\ ScriptHandled
    /\ Len(requests) = 3
    /\ applied[1].addr # applied[2].addr
    /\ applied[3].addr = None

RecordedArgs(env_id) ==
    [hostname |-> managed_records[env_id].hostname,
     target |-> managed_records[env_id].target,
     record_type |-> RecordType(managed_records[env_id].target)]

C3_RecordedTarget ==
    /\ h.pc = "delete_call" =>
           /\ HasEntry(FrameEnv)
           /\ [hostname |-> h.hostname, target |-> h.target,
               record_type |-> h.record_type] = RecordedArgs(FrameEnv)
    /\ spc = "delete_call" =>
           /\ HasEntry(Head(sw.stale_records))
           /\ [hostname |-> sw.hostname, target |-> sw.target,
               record_type |-> sw.record_type] = RecordedArgs(Head(sw.stale_records))

\* a DELETE is about to be issued for a deleted event whose service object
\* carries another address than the one recorded
C3_Witness ==
    /\ h.pc = "delete_call"
    /\ get_service_ingress(h.event[1].object) # None
    /\ get_service_ingress(h.event[1].object) # h.target

\* C4: in a quiescent state (no notification and no sweep in progress,
\* no provider request has failed) a hostname has a record in the provider
\* if and only if the map holds an entry with that hostname, and the
\* record's target is the entry's target.
Quiescent ==
    /\ h.pc = "idle"
    /\ spc \in {"unborn", "init", "sleep", "ready"}
    /\ ~failed

C4_MapMatchesProvider ==
    Quiescent =>
        /\ \A n \in DOMAIN zone :
               zone[n] # <<>> <=>
                   \E k \in DOMAIN managed_records : managed_records[k].hostname = n
        /\ \A k \in DOMAIN managed_records :
               /\ zone[managed_records[k].hostname] # <<>>
               /\ zone[managed_records[k].hostname][1].value = managed_records[k].target

\* C5: the handler and the sweeper are never both between a lookup in the
\* map and the write or removal that follows it; the entry a task has
\* looked up is still there, unchanged, when the task removes it, so no
\* task removes an entry that is gone or issues a second DELETE for it.
HandlerCritical == h.pc \in {"upsert_call", "upsert_ok", "delete_call", "delete_ok"}
SweeperCritical == spc \in {"scan", "clean", "delete_call", "delete_ok"}

C5_Serialized ==
    /\ ~(HandlerCritical /\ SweeperCritical)
    /\ h.pc \in {"delete_call", "delete_ok"} =>
           /\ HasEntry(FrameEnv)
           /\ managed_records[FrameEnv].hostname = h.hostname
           /\ managed_records[FrameEnv].target = h.target
    /\ SweeperCritical =>
           /\ \A i \in 1..Len(sw.scan) : HasEntry(sw.scan[i])
           /\ \A i \in 1..Len(sw.stale_records) :
                  /\ HasEntry(sw.stale_records[i])
                  /\ \E j \in 1..Len(sw.seen) :
                         /\ sw.seen[j].env_id = sw.stale_records[i]
                         /\ sw.seen[j].target = managed_records[sw.stale_records[i]].target
                         /\ sw.seen[j].created_at =
                                managed_records[sw.stale_records[i]].created_at
           /\ \A i, j \in 1..Len(sw.deletes) :
                  sw.deletes[i].env_id = sw.deletes[j].env_id => i = j

\* one task is between its lookup and its write while the other one is
\* ready to run and waits for the loop
C5_Witness ==
    \/ HandlerCritical /\ spc = "ready"
    \/ SweeperCritical /\ wpc = "wake" /\ sw.stale_records # <<>>

\* C6: for one service, notifications are handled in the order of the
\* cluster's changes, one at a time, also across the end of a stream and a
\* new subscription: no notification waiting or being handled is older
\* than one already handled for that service, and the waiting ones are in
\* the order of their changes.
C6_PerKeyOrder ==
    /\ \A i \in 1..Len(stream) :
           stream[i].object.rv >= handled[stream[i].object.name]
    /\ \A i, j \in 1..Len(stream) :
           (i < j /\ stream[i].object.name = stream[j].object.name) =>
               /\ stream[i].object.rv <= stream[j].object.rv
               /\ stream[i].type # "DELETED" =>
                      stream[i].object.rv < stream[j].object.rv
                      \/ stream[j].type = "ADDED"
    /\ h.pc # "idle" =>
           /\ h.event[1].object.rv >= handled[h.event[1].object.name]
           /\ \A i \in 1..Len(stream) :
                  stream[i].object.name = h.event[1].object.name =>
                      stream[i].object.rv >= h.event[1].object.rv

\* after a new subscription the listing delivers again a service whose
\* notification was handled before, and a later change of it waits behind
C6_Witness ==
    /\ Len(stream) >= 2
    /\ stream[1].type = "ADDED"
    /\ handled[stream[1].object.name] = stream[1].object.rv
    /\ \E j \in 2..Len(stream) :
           /\ stream[j].object.name = stream[1].object.name
           /\ stream[j].type = "DELETED"

\* C7: when an added or modified notification has been handled, the map
\* holds exactly one entry for the identity, and its hostname, target and
\* service are those of the notification alone, whatever was delivered
\* before (the listing again, the same notification again).
C7_Idempotent ==
    /\ \A i, j \in 1..Len(record_keys) : record_keys[i] = record_keys[j] => i = j
    /\ {record_keys[i] : i \in 1..Len(record_keys)} = DOMAIN managed_records
    /\ h.pc = "upserted" =>
           /\ HasEntry(FrameEnv)
           /\ managed_records[FrameEnv].hostname = Hostname(FrameEnv)
           /\ managed_records[FrameEnv].target = get_service_ingress(h.event[1].object)
           /\ managed_records[FrameEnv].service = ServiceRef(h.event[1].object)

\* an added notification for a version of the service that was handled
\* before has been handled again
C7_Witness ==
    /\ h.pc = "upserted"
    /\ h.event[1].type = "ADDED"
    /\ handled[h.event[1].object.name] = h.event[1].object.rv

\* C8: at the end of a sweep cycle without a failure, every entry the
\* cycle met that was older than the grace window and whose service was
\* not found is gone from the map, and the cycle issued exactly one DELETE
\* for it, with the entry's hostname, target and record type.
SweptStale(s) ==
    /\ s.created_at < now - GraceHours
    /\ s.gone
    /\ s.status # 500

C8_StaleSweep ==
    spc = "swept" =>
        \A i \in 1..Len(sw.seen) :
            SweptStale(sw.seen[i]) =>
                /\ ~HasEntry(sw.seen[i].env_id)
                /\ \E j \in 1..Len(sw.deletes) :
                       /\ sw.deletes[j] =
                              Request("DELETE", sw.seen[i].hostname, sw.seen[i].target,
                                      RecordType(sw.seen[i].target),
                                      sw.seen[i].env_id, "sweeper")
                       /\ \A k \in 1..Len(sw.deletes) :
                              sw.deletes[k].env_id = sw.seen[i].env_id => k = j

\* a cycle that met such an entry has ended
C8_Witness ==
    /\ spc = "swept"
    /\ \E i \in 1..Len(sw.seen) :
           SweptStale(sw.seen[i]) /\ sw.seen[i].status = 404

(***************************************************************************)
(* Liveness. The event loop runs its ready tasks in turn: a task that is   *)
(* ready again and again while the other one runs gets the loop (strong    *)
(* fairness of the watcher's and the sweeper's steps), and the task that   *)
(* holds the loop goes on (weak fairness of the handler's steps). Time     *)
(* passes: a timer that is due again and again goes off, and the records   *)
(* age (strong fairness, a timer of one task waits while the other task    *)
(* runs). Nothing is assumed of the cluster, of the provider's answers, or *)
(* of errors of the stream.                                                *)
(***************************************************************************)
FairSpec ==
    /\ Spec
    /\ SF_vars(Watcher)
    /\ WF_vars(Handler)
    /\ SF_vars(Sweeper)
    /\ SF_vars(StreamTimeout)
    /\ SF_vars(BackoffTimer)
    /\ SF_vars(SweepTimer)
    /\ SF_vars(Tick)

\* the same with the services of environments only, and fewer changes of
\* the cluster
Labelled == {s \in Services : LabelOf(s) # None}

DriftCluster == clusterRV < MaxDriftChanges /\ ClusterOf(Labelled)

DriftNext == DriftCluster \/ Watcher \/ Handler \/ Sweeper \/ Timers \/ Tick

DriftSpec ==
    /\ Init
    /\ [][DriftNext]_vars
    /\ SF_vars(Watcher)
    /\ WF_vars(Handler)
    /\ SF_vars(Sweeper)
    /\ SF_vars(StreamTimeout)
    /\ SF_vars(BackoffTimer)
    /\ SF_vars(SweepTimer)
    /\ SF_vars(Tick)

\* C9: in every execution, also one where the stream only ever times out
\* and is opened again without an error, a sweep cycle starts again and
\* again.
C9_SweepsForever == []<>(spc = "scan")

\* C10: when a service is gone and the DELETE of its deleted notification
\* has failed, or the notification never arrived, then, provided that from
\* some time on no provider request and no lookup of the sweeper fails and
\* sweep cycles keep starting, the provider's record for the hostname is
\* eventually removed (or the service exists again).
Failure ==
    \/ UpsertCall(FALSE)
    \/ DeleteCall(FALSE)
    \/ SweepDeleteCall(FALSE)
    \/ SweepCheck(500)

Pending(s) ==
    \/ h.pc # "idle" /\ h.event[1].object.name = s
    \/ \E i \in 1..Len(stream) : stream[i].object.name = s

DeleteFailed(s) ==
    /\ h.pc \in {"deleted", "delete_raised"}
    /\ ~h.ok
    /\ h.event[1].object.name = s
    /\ zone[h.hostname] = <<[type |-> h.record_type, value |-> h.target]>>

DeleteLost(s) ==
    /\ ~Pending(s)
    /\ HasEntry(LabelOf(s))
    /\ zone[Hostname(LabelOf(s))] =
           <<[type |-> RecordType(managed_records[LabelOf(s)].target),
              value |-> managed_records[LabelOf(s)].target]>>

Drift(s) == ~Exists(s) /\ (DeleteFailed(s) \/ DeleteLost(s))

Resolved(s) == zone[Hostname(LabelOf(s))] = <<>> \/ Exists(s)

C10_DriftBounded ==
    (<>[][~Failure]_vars /\ []<>(spc = "scan")) =>
        \A s \in Labelled : Drift(s) ~> Resolved(s)

\* the sweeper has just removed the record of a service that is gone,
\* after the handler's DELETE for it had failed
C10_Witness ==
    /\ spc = "delete_ok"
    /\ failed
    /\ \E s \in Labelled :
           /\ ~Exists(s)
           /\ Head(sw.stale_records) = LabelOf(s)
           /\ zone[Hostname(LabelOf(s))] = <<>>

\* C11: the watch loop never ends by itself: after a stream timeout, after
\* an error of the stream and after a failure while an event is handled,
\* the watcher is again in an open subscription, waiting for the next
\* event.
StreamOver ==
    \/ wpc = "stream" /\ ~streamOpen
    \/ wpc \in {"backoff", "wake", "open"}
    \/ wpc = "stream" /\ h.pc \in {"upsert_raised", "delete_raised"}

Watching == wpc = "stream" /\ streamOpen /\ h.pc = "idle"

C11_WatchForever == StreamOver ~> Watching

\* a new subscription is open after an error of the stream, and the
\* provider has failed a request before
C11_Witness ==
    /\ Watching
    /\ failed
    /\ running = "watch"
    /\ spc \in {"sleep", "ready"}

\* C12: a subscription is never opened right after a stream has ended; the
\* watcher always goes through the back-off delay first, after a timeout as
\* after an error.
C12_BackoffBeforeReopen == [][wpc = "stream" => wpc' \in {"stream", "backoff"}]_vars

\* C14: a failure on one item does not end a task. When the handling of
\* an event has failed, the handler returns to the loop it was called from,
\* which keeps its remaining events; when a lookup of the sweeper fails,
\* the iteration goes on with the next entry; when a DELETE of the sweeper
\* fails, the sweeper goes to the sleep before its next cycle.
C14_TasksSurvive ==
    [][/\ (h.pc \in {"upsert_raised", "delete_raised"} /\ h'.pc # h.pc) =>
              /\ h'.pc = "idle"
              /\ wpc \in {"sync", "stream"} /\ wpc' = wpc
              /\ stream' = stream
              /\ running' = "watch"
       /\ (spc = "scan" /\ Len(sw'.seen) > Len(sw.seen)
                        /\ sw'.seen[Len(sw'.seen)].status = 500) =>
              /\ spc' = "scan"
              /\ sw'.scan = Tail(sw.scan)
              /\ sw'.stale_records = sw.stale_records
       /\ (spc = "delete_call" /\ spc' # spc) => spc' \in {"delete_ok", "raised"}
       /\ (spc = "raised" /\ spc' # spc) => spc' = "sleep"]_vars

\* a DELETE of the sweeper has failed, after a lookup of the same cycle
\* had failed for another entry
C14_Witness ==
    /\ spc = "raised"
    /\ sw.deletes # <<>>
    /\ \E i \in 1..Len(sw.seen) : sw.seen[i].status = 500

(***************************************************************************)
(* Shutdown. main() installs no signal handler and start() shields         *)
(* nothing: the process can be ended at any point of a task.               *)
(***************************************************************************)
Shutdown ==
    /\ running # "exited"
    /\ running' = "exited"
    /\ UNCHANGED <<envVars, clusterVars, zone, managed_records, record_keys, wpc, stream,
                   streamOpen, h, spc, sw, histVars>>

ShutdownNext == DriftNext \/ Shutdown

ShutdownSpec == Init /\ [][ShutdownNext]_vars

\* C15: when the process has exited, no task is between a provider request
\* that succeeded and the write or removal of the map entry that follows it.
C15_NoAbandonedChange ==
    running = "exited" =>
        /\ h.pc \notin {"upsert_ok", "delete_ok"}
        /\ spc # "delete_ok"

(***************************************************************************)
(* Cold start: the process starts on a cluster that has services already;  *)
(* the logs are kept.                                                      *)
(***************************************************************************)
\* the clusters the process can find: every service absent or present with
\* one of its load-balancer states, the resourceVersions in creation order
RECURSIVE Rank(_, _)
Rank(present, i) ==
    IF i = 0 THEN 0
    ELSE Rank(present, i - 1) + (IF ServiceNames[i] \in present THEN 1 ELSE 0)

Position(s) == CHOOSE i \in 1..Len(ServiceNames) : ServiceNames[i] = s

StartClusters ==
    UNION {
        {[s \in Services |->
              IF s \in present
              THEN <<ServiceObject(s, choice[s], Rank(present, Position(s)))>>
              ELSE <<>>] :
             choice \in [Services -> IngressLists]}
        : present \in SUBSET Services}

InitCold ==
    /\ EnvInit
    /\ services \in {c \in StartClusters :
                         \A s \in Services : c[s] # <<>> => c[s][1].ingress \in IngressOf(s)}
    /\ clusterRV = Cardinality({s \in Services : services[s] # <<>>})
    /\ zone = [n \in {Hostname(e) : e \in EnvIds} |-> <<>>]
    /\ managed_records = <<>>
    /\ record_keys = <<>>
    /\ running = "watch"
    /\ wpc = "start"
    /\ stream = <<>>
    /\ streamOpen = FALSE
    /\ h = IdleFrame
    /\ spc = "unborn"
    /\ sw = IdleSweep
    /\ recording = TRUE
    /\ requests = <<>>
    /\ applied = <<>>
    /\ failed = FALSE
    /\ handled = [s \in Services |-> 0]

\* start() up to the first subscription: sync_existing_records, which
\* hands added notifications only to the handler, and the creation of the
\* two tasks
ColdNext ==
    \/ Cluster
    \/ \E ok \in BOOLEAN : SyncList(ok)
    \/ HandleEvent
    \/ \E ok \in BOOLEAN : UpsertCall(ok)
    \/ UpsertStore
    \/ HandlerReturn
    \/ SyncDone
    \/ Tick

SpecCold == InitCold /\ [][ColdNext]_vars

\* C13: start() handles the listing of the services before the first
\* subscription is opened and before the sweeper exists; when the listing
\* is handled, every service that existed at the start has been handled
\* exactly once, as an added notification, and when no provider request
\* has failed every one of them that had an identity label and an address
\* has its entry in the map.
Replayed ==
    /\ recording
    /\ wpc = "open"
    /\ spc = "init"
    /\ applied # <<>>
    /\ applied[1].type = "LIST"
    /\ applied[1].ok

dnsVars == <<services, clusterRV, zone, managed_records, record_keys, running,
             wpc, stream, streamOpen, h, spc, sw, recording, requests, applied,
             failed, handled>>

\* f"dev-env-{env_id[:8]}"
NamespaceName(env_id) == <<"d","e","v","-","e","n","v","-">> \o Take(env_id, ShortLen)

\* the create calls of one creation, in the order of the code
OperatorSteps == <<"namespace", "networkpolicy", "pvc", "deployment", "service">>
ApiStepsMutant == <<"namespace", "service", "deployment">>
ApiSteps == <<"namespace", "deployment", "service">>

Steps(fn) == IF fn = "operator_create" THEN OperatorSteps ELSE ApiSteps

Obj(kind, namespace) == [kind |-> kind, namespace |-> namespace]

\* the cluster's answer to a create call: 201, 409 when the object exists,
\* 404 when the namespace of a namespaced object does not exist
CreateStatus(kind, namespace) ==
    IF Obj(kind, namespace) \in objects THEN 409
    ELSE IF kind # "namespace" /\ Obj("namespace", namespace) \notin objects THEN 404
    ELSE 201

\* the cluster's answer to delete_namespace: the deletion cascades
DeleteStatus(namespace) == IF Obj("namespace", namespace) \in objects THEN 200 ELSE 404

ObjectsAfterCreate(kind, namespace, status) ==
    IF status = 201 THEN objects \cup {Obj(kind, namespace)} ELSE objects

ObjectsAfterDelete(namespace, status) ==
    IF status = 200 THEN {o \in objects : o.namespace # namespace} ELSE objects

\* a call of a run, as the frame keeps it
Call(op, kind, namespace, status) ==
    [op |-> op, kind |-> kind, namespace |-> namespace, status |-> status]

\* environments: the identities that have a record, and the ones used up
HasRecord(env_id) == environments[env_id] \notin {"absent", "removed"}

Task(fn, env_id) == [fn |-> fn, env_id |-> env_id]

\* POST /environments: a new identity, status pending, the creation queued
ApiCreateRequest(env_id) ==
    /\ api.pc = "idle"
    /\ environments[env_id] = "absent"
    /\ Len(bg) < MaxTasks
    /\ environments' = [environments EXCEPT ![env_id] = "pending"]
    /\ bg' = Append(bg, Task("create", env_id))
    /\ UNCHANGED <<dnsVars, espec, clock, built, objects, api, opr, resources>>

\* DELETE /environments/{env_id}: status stopping whatever it was, the
\* deletion queued; 404 without a record
ApiDeleteRequest(env_id) ==
    /\ api.pc = "idle"
    /\ HasRecord(env_id)
    /\ Len(bg) < MaxTasks
    /\ environments' = [environments EXCEPT ![env_id] = "stopping"]
    /\ bg' = Append(bg, Task("delete", env_id))
    /\ UNCHANGED <<dnsVars, espec, clock, built, objects, api, opr, resources>>

\* a run of a task: position, identity, the calls it made so far
Run(fn, pc, env_id, calls) == [fn |-> fn, pc |-> pc, env_id |-> env_id, calls |-> calls]

\* a background task starts after its response was sent; tasks of
\* different requests start in any order. create_k8s_environment reads the
\* record first (KeyError when it is gone) and sets status creating.
ApiTaskStart(i) ==
    /\ api.pc = "idle"
    /\ i \in 1..Len(bg)
    /\ bg' = SubSeq(bg, 1, i - 1) \o SubSeq(bg, i + 1, Len(bg))
    /\ IF bg[i].fn = "create"
       THEN IF HasRecord(bg[i].env_id)
            THEN /\ environments' = [environments EXCEPT ![bg[i].env_id] = "creating"]
                 /\ api' = Run("api_create", "call", bg[i].env_id, <<>>)
            ELSE /\ environments' = environments
                 /\ api' = Run("api_create", "crashed", bg[i].env_id, <<>>)
       ELSE /\ environments' = environments
            /\ api' = Run("api_delete", "call", bg[i].env_id, <<>>)
    /\ UNCHANGED <<dnsVars, espec, clock, built, objects, opr, resources>>

\* the statuses a call can come back with: the cluster's answer or a failure
Answers(status) == {status, 500}

\* which answers of a create call let the creation go on: the operator's
\* helpers catch 409, the API's helpers catch nothing
CreateSucceeded(fn, status) ==
    IF fn = "operator_create" THEN status \in {201, 409} ELSE status = 201

\* which answers of delete_namespace are no exception for the caller: the
\* operator's handler swallows 404, the API's task catches every exception
\* after the call and skips the removal of the record
DeleteSucceeded(fn, status) ==
    IF fn = "operator_delete" THEN status \in {200, 404} ELSE status = 200

\* where a creation goes after its k-th call
NextStepMutant(steps, k, ok) == IF k < Len(steps) THEN "call" ELSE "done"
NextStep(steps, k, ok) ==
    IF ~ok THEN "failed" ELSE IF k < Len(steps) THEN "call" ELSE "done"

\* the status the record gets when create_k8s_environment leaves a call
StatusAfter(status, pc) ==
    IF pc = "failed" THEN "error" ELSE IF pc = "done" THEN "running" ELSE status

\* the descriptor a helper of the operator builds for its create call;
\* utcnow is datetime.utcnow() at that moment
Body(kind, env_id, spec, utcnow) ==
    CASE kind = "namespace" ->
            [name |-> NamespaceName(env_id), environment_id |-> env_id,
             created_at |-> utcnow]
      [] kind = "networkpolicy" ->
            [name |-> "dev-env-isolation", environment_id |-> env_id]
      [] kind = "pvc" ->
            [name |-> "workspace-storage", environment_id |-> env_id]
      [] kind = "deployment" ->
            [name |-> NamespaceName(env_id), environment_id |-> env_id,
             init_containers |-> init_containers(spec.packages),
             node_selector |-> get_node_selector(spec),
             tolerations |-> get_tolerations(spec).tolerations]
      [] OTHER ->
            [name |-> NamespaceName(env_id) \o <<"-","s","e","r","v","i","c","e">>,
             environment_id |-> env_id,
             labels |-> ("app.kubernetes.io/managed-by" :> "dev-platform")
                           @@ ("dev-platform/environment-id" :> env_id),
             ports |-> Ports(spec), session_affinity |-> "ClientIP"]

\* the descriptor a helper of the API builds: no label on the namespace and
\* the service, no init container, the development pool, all three ports
ApiBody(kind, env_id, spec) ==
    CASE kind = "namespace" -> [name |-> NamespaceName(env_id)]
      [] kind = "deployment" ->
            [name |-> NamespaceName(env_id), environment_id |-> env_id,
             init_containers |-> <<>>,
             node_selector |-> [workload_type |-> "development"]]
      [] OTHER -> [name |-> NamespaceName(env_id) \o <<"-","s","e","r","v","i","c","e">>,
                   labels |-> <<>>, ports |-> ApiPorts(spec)]

\* the history of descriptors, kept while recording
Build(program, kind, body) ==
    IF recording THEN [built EXCEPT ![program][kind] = <<body>>] ELSE built

\* building the descriptor raises: create_deployment parses the memory
\* limit for the node selector before its create call
Raises(kind, spec) == kind = "deployment" /\ ~parse_memory(spec.memory).ok

\* one create call of create_k8s_environment; the except branch and the
\* final assignment of the status belong to the same burst
ApiCreateCall(status) ==
    /\ api.fn = "api_create" /\ api.pc = "call"
    /\ LET k == Len(api.calls) + 1
           kind == ApiSteps[k]
           namespace == NamespaceName(api.env_id)
           pc == NextStep(ApiSteps, k, CreateSucceeded(api.fn, status))
       IN /\ status \in Answers(CreateStatus(kind, namespace))
          /\ objects' = ObjectsAfterCreate(kind, namespace, status)
          /\ api' = [api EXCEPT !.pc = pc,
                                !.calls = Append(@, Call("create", kind, namespace, status))]
          /\ environments' = [environments EXCEPT
                                 ![api.env_id] = StatusAfter(@, pc)]
          /\ built' = Build("api", kind, ApiBody(kind, api.env_id, espec))
    /\ UNCHANGED <<dnsVars, espec, clock, bg, opr, resources>>

\* delete_k8s_environment: delete_namespace, then the record is removed;
\* an exception of the call skips the removal
ApiDeleteCall(status) ==
    /\ api.fn = "api_delete" /\ api.pc = "call"
    /\ LET namespace == NamespaceName(api.env_id)
           ok == DeleteSucceeded(api.fn, status)
       IN /\ status \in Answers(DeleteStatus(namespace))
          /\ objects' = ObjectsAfterDelete(namespace, status)
          /\ api' = [api EXCEPT !.pc = IF ok THEN "done" ELSE "failed",
                                !.calls = Append(@, Call("delete", "namespace", namespace, status))]
          /\ environments' = IF ok /\ HasRecord(api.env_id)
                             THEN [environments EXCEPT ![api.env_id] = "removed"]
                             ELSE environments
    /\ UNCHANGED <<dnsVars, espec, clock, built, bg, opr, resources>>

\* the background task is over
ApiReturn ==
    /\ api.pc \in {"done", "failed", "crashed"}
    /\ api' = IdleTask
    /\ UNCHANGED <<dnsVars, espec, clock, built, environments, objects, bg, opr, resources>>

\* a DevelopmentEnvironment resource is created in the cluster
ResourceCreate(env_id) ==
    /\ resources[env_id] = "absent"
    /\ resources' = [resources EXCEPT ![env_id] = "new"]
    /\ UNCHANGED <<dnsVars, espec, clock, built, environments, objects, bg, api, opr>>

\* the resource is deleted in the cluster
ResourceDelete(env_id) ==
    /\ resources[env_id] \in {"new", "retry", "created"}
    /\ resources' = [resources EXCEPT ![env_id] = "deleting"]
    /\ UNCHANGED <<dnsVars, espec, clock, built, environments, objects, bg, api, opr>>

\* kopf calls the create handler for a new resource, and again after the
\* handler raised; the delete handler for a resource that is being deleted
OperatorStart(env_id) ==
    /\ opr.pc = "idle"
    /\ resources[env_id] \in {"new", "retry", "deleting"}
    /\ opr' = Run(IF resources[env_id] = "deleting" THEN "operator_delete"
                  ELSE "operator_create", "call", env_id, <<>>)
    /\ UNCHANGED <<dnsVars, espec, clock, built, environments, objects, bg, api, resources>>

\* one create call of the create handler
OperatorCreateCall(status) ==
    /\ opr.fn = "operator_create" /\ opr.pc = "call"
    /\ LET k == Len(opr.calls) + 1
           kind == OperatorSteps[k]
           namespace == NamespaceName(opr.env_id)
       IN /\ ~Raises(kind, espec)
          /\ status \in Answers(CreateStatus(kind, namespace))
          /\ objects' = ObjectsAfterCreate(kind, namespace, status)
          /\ opr' = [opr EXCEPT !.pc = NextStep(OperatorSteps, k,
                                                CreateSucceeded(opr.fn, status)),
                                !.calls = Append(@, Call("create", kind, namespace, status))]
          /\ built' = Build("operator", kind, Body(kind, opr.env_id, espec, clock))
    /\ UNCHANGED <<dnsVars, espec, clock, environments, bg, api, resources>>

\* the helper raises before its create call: the handler logs and re-raises
OperatorBuildFails ==
    /\ opr.fn = "operator_create" /\ opr.pc = "call"
    /\ Raises(OperatorSteps[Len(opr.calls) + 1], espec)
    /\ opr' = [opr EXCEPT !.pc = "failed"]
    /\ UNCHANGED <<dnsVars, espec, clock, built, environments, objects, bg, api, resources>>

\* the delete handler: delete_namespace, 404 swallowed
OperatorDeleteCall(status) ==
    /\ opr.fn = "operator_delete" /\ opr.pc = "call"
    /\ LET namespace == NamespaceName(opr.env_id)
       IN /\ status \in Answers(DeleteStatus(namespace))
          /\ objects' = ObjectsAfterDelete(namespace, status)
          /\ opr' = [opr EXCEPT !.pc = IF DeleteSucceeded(opr.fn, status)
                                       THEN "done" ELSE "failed",
                                !.calls = Append(@, Call("delete", "namespace", namespace, status))]
    /\ UNCHANGED <<dnsVars, espec, clock, built, environments, bg, api, resources>>

\* the handler returns or raises: kopf records the success, or retries. A
\* resource deleted while its create handler ran stays in deletion.
OperatorReturn ==
    /\ opr.pc \in {"done", "failed"}
    /\ opr' = IdleTask
    /\ resources' = [resources EXCEPT ![opr.env_id] =
                        IF opr.fn = "operator_delete"
                        THEN IF opr.pc = "done" THEN "gone" ELSE "deleting"
                        ELSE IF @ = "deleting" THEN "deleting"
                        ELSE IF opr.pc = "done" THEN "created" ELSE "retry"]
    /\ UNCHANGED <<dnsVars, espec, clock, built, environments, objects, bg, api>>

Api ==
    \/ \E env_id \in EnvIds : ApiCreateRequest(env_id) \/ ApiDeleteRequest(env_id)
    \/ \E i \in 1..MaxTasks : ApiTaskStart(i)
    \/ \E status \in {201, 409, 404, 500} : ApiCreateCall(status)
    \/ \E status \in {200, 404, 500} : ApiDeleteCall(status)
    \/ ApiReturn

Operator ==
    \/ \E env_id \in ResourceIds :
          ResourceCreate(env_id) \/ ResourceDelete(env_id) \/ OperatorStart(env_id)
    \/ \E status \in {201, 409, 404, 500} : OperatorCreateCall(status)
    \/ \E status \in {200, 404, 500} : OperatorDeleteCall(status)
    \/ OperatorReturn

EnvNext == Api \/ Operator

EnvSpec == Init /\ [][EnvNext]_vars

(***************************************************************************)
(* Claims about the creation and the deletion of environments              *)
(***************************************************************************)
Creating(run) == run.fn \in {"api_create", "operator_create"}

Deleting(run) == run.fn \in {"api_delete", "operator_delete"}

\* the j-th call of the run came back with an answer the run goes on with
Succeeded(run, j) == CreateSucceeded(run.fn, run.calls[j].status)

\* the kinds the creation of this program applies
Applies(fn) == {Steps(fn)[k] : k \in 1..Len(Steps(fn))}

Middle == {"networkpolicy", "pvc", "deployment"}

AppliedBefore(run, i, kind) ==
    \E j \in 1..(i - 1) : run.calls[j].kind = kind /\ Succeeded(run, j)

Ordered(run) ==
    \A i \in 1..Len(run.calls) :
        /\ run.calls[i].kind = "namespace" => i = 1
        /\ run.calls[i].kind \in Middle => AppliedBefore(run, i, "namespace")
        /\ run.calls[i].kind = "service" =>
              /\ i = Len(Steps(run.fn))
              /\ \A j \in 1..(i - 1) : Succeeded(run, j)
              /\ \A kind \in Middle \cap Applies(run.fn) : AppliedBefore(run, i, kind)

ApiRetry(env_id) ==
    /\ api.pc = "idle"
    /\ environments[env_id] \in {"running", "error"}
    /\ Len(bg) < MaxTasks
    /\ bg' = Append(bg, Task("create", env_id))
    /\ UNCHANGED <<dnsVars, espec, clock, built, environments, objects, api, opr, resources>>

RetryNext ==
    \/ ApiCreateRequest(EnvA)
    \/ ApiDeleteRequest(EnvA)
    \/ ApiRetry(EnvA)
    \/ \E i \in 1..MaxTasks : ApiTaskStart(i)
    \/ \E status \in {201, 409, 404, 500} : ApiCreateCall(status)
    \/ \E status \in {200, 404, 500} : ApiDeleteCall(status)
    \/ ApiReturn

RetrySpec == Init /\ [][RetryNext]_vars

LastCall(run) == run.calls[Len(run.calls)]

\* C17: a creation that gets the answer already exists (409) goes on as
\* after a success: the run does not fail on that call and the record of
\* the environment does not get status error by it.
C17_AlreadyExistsIsSuccess ==
    \A run \in {api, opr} :
        (Creating(run) /\ run.calls # <<>> /\ LastCall(run).status = 409) =>
            /\ run.pc # "failed"
            /\ run.fn = "api_create" => environments[run.env_id] # "error"

\* the run's last call came back with an error other than already exists
Refused(run) ==
    Creating(run) /\ run.calls # <<>> /\ LastCall(run).status \notin {201, 409}

\* the calls of a creation: creates only, and none after a failed one
StopsAtFailure(run) ==
    Creating(run) =>
        /\ \A j \in 1..Len(run.calls) : run.calls[j].op = "create"
        /\ \A j \in 1..(Len(run.calls) - 1) : Succeeded(run, j)
        /\ Refused(run) => run.pc = "failed"

\* C18: a creation whose call fails with an error other than already
\* exists stops at that call: the run makes no later create call and no
\* delete call, the failed call leaves the objects of the earlier calls in
\* the cluster, the run can only end, and the record of the API's
\* environment has status error.
C18_FailureStops ==
    [][/\ StopsAtFailure(api') /\ StopsAtFailure(opr')
       /\ Refused(api') => environments'[api'.env_id] = "error"
       /\ (Refused(api') /\ api.pc = "call") => objects' = objects
       /\ (Refused(opr') /\ opr.pc = "call") => objects' = objects
       /\ (Refused(api) /\ api' # api) => api' = IdleTask
       /\ (Refused(opr) /\ opr' # opr) => opr' = IdleTask]_vars

\* both programs failed partway, on a cluster that keeps what they made
C18_Witness ==
    /\ Refused(api) /\ Len(api.calls) = 2 /\ environments[api.env_id] = "error"
    /\ Refused(opr) /\ Len(opr.calls) = 3 /\ opr.calls[2].status = 201
    /\ Obj("namespace", NamespaceName(api.env_id)) \in objects
    /\ Obj("networkpolicy", NamespaceName(opr.env_id)) \in objects

\* the changes of status the state machine of a record allows; "absent" is
\* an identity not yet made, "removed" a record taken out of the store
Allowed ==
    {<<"absent", "pending">>, <<"pending", "creating">>,
     <<"creating", "running">>, <<"creating", "error">>,
     <<"running", "stopping">>, <<"error", "stopping">>,
     <<"stopping", "removed">>}

\* C19: whatever the order of create requests, delete requests and
\* background tasks, the status of a record changes only along pending to
\* creating, creating to running or error, running or error to stopping,
\* and stopping to removed.
C19_StatusMachine ==
    [][\A env_id \in EnvIds :
          \/ environments'[env_id] = environments[env_id]
          \/ <<environments[env_id], environments'[env_id]>> \in Allowed]_vars

\* the run makes its delete call in this step
DeleteAnswered(run, run2) == Deleting(run) /\ run.pc = "call" /\ run2.pc # "call"

\* C20: a deletion calls delete for the namespace of its identity; the
\* API's task removes the record it finds exactly when the call answered
\* success or not found (404), and the operator's delete handler ends
\* without an error when the answer is not found.
C20_NotFoundIsSuccess ==
    [][/\ (DeleteAnswered(api, api') /\ HasRecord(api.env_id)) =>
             /\ LastCall(api').namespace = NamespaceName(api.env_id)
             /\ environments'[api.env_id] = "removed"
                   <=> LastCall(api').status \in {200, 404}
       /\ DeleteAnswered(opr, opr') =>
             /\ LastCall(opr').namespace = NamespaceName(opr.env_id)
             /\ LastCall(opr').status = 404 => opr'.pc = "done"]_vars

\* the objects in the namespace of an identity
ObjectsOf(env_id) == {o \in objects : o.namespace = NamespaceName(env_id)}

\* the run makes a call for its identity in this step
Calls(run, run2) == run.pc = "call" /\ Len(run2.calls) = Len(run.calls) + 1

\* C21: a call made for one identity, by a creation or a deletion of the
\* API or of the operator, changes no object in the namespace of another
\* identity that has a record at that time.
C21_ScopedToIdentity ==
    [][\A env_id \in EnvIds :
          (HasRecord(env_id) /\ \/ Calls(api, api') /\ api.env_id # env_id
                                \/ Calls(opr, opr') /\ opr.env_id # env_id)
             => ObjectsOf(env_id)' = ObjectsOf(env_id)]_vars

(***************************************************************************)
(* Materialization: an environment of any of the specs drawn is created,   *)
(* by the API and by the operator, the operator's handler as often as kopf *)
(* retries it, while the clock of the operator goes on. The descriptors    *)
(* built are kept.                                                         *)
(***************************************************************************)
InitMaterialize ==
    /\ \E spec \in Specs : EnvInitOf(spec)
    /\ services = [s \in Services |-> <<>>]
    /\ clusterRV = 0
    /\ zone = [n \in {Hostname(e) : e \in EnvIds} |-> <<>>]
    /\ managed_records = <<>>
    /\ record_keys = <<>>
    /\ running = "watch"
    /\ wpc = "start"
    /\ stream = <<>>
    /\ streamOpen = FALSE
    /\ h = IdleFrame
    /\ spc = "unborn"
    /\ sw = IdleSweep
    /\ recording = TRUE
    /\ requests = <<>>
    /\ applied = <<>>
    /\ failed = FALSE
    /\ handled = [s \in Services |-> 0]

\* an hour passes
ClockTick ==
    /\ clock < MaxClock
    /\ clock' = clock + 1
    /\ UNCHANGED <<dnsVars, espec, built, environments, objects, bg, api, opr, resources>>

MaterializeNext ==
    \/ ApiCreateRequest(EnvA)
    \/ ApiTaskStart(1)
    \/ \E status \in {201, 409, 404, 500} : ApiCreateCall(status)
    \/ ApiReturn
    \/ ResourceCreate(EnvA)
    \/ OperatorStart(EnvA)
    \/ \E status \in {201, 409, 404, 500} : OperatorCreateCall(status)
    \/ OperatorBuildFails
    \/ OperatorReturn
    \/ ClockTick

MaterializeSpec == InitMaterialize /\ [][MaterializeNext]_vars

(***************************************************************************)
(* Claims about the descriptors                                            *)
(***************************************************************************)
\* the descriptor of a kind a program built last, as a set of at most one
Built(program, kind) ==
    {built[program][kind][i] : i \in 1..Len(built[program][kind])}

\* C22: for every spec, with or without an accelerator request and with any
\* memory limit, the workload the operator builds has exactly one toleration
\* and its value is the workload-type of the node selector; so the selector
\* names the accelerator pool exactly when the toleration does.
C22_SelectorMatchesToleration ==
    /\ parse_memory(espec.memory).ok =>
          /\ Len(get_tolerations(espec).tolerations) = 1
          /\ get_tolerations(espec).tolerations[1].value
                = get_node_selector(espec).workload_type
    /\ \A body \in Built("operator", "deployment") :
          /\ Len(body.tolerations) = 1
          /\ body.tolerations[1].value = body.node_selector.workload_type
          /\ body.tolerations[1].key = "workload-type"

\* a workload was built for a spec with an accelerator request and a memory
\* limit of the high-memory pool
C22_Witness ==
    /\ Built("operator", "deployment") # {}
    /\ espec.gpu # None /\ HighMemory(espec)

\* the pool of the reference: the accelerator request decides first, the
\* memory limit second
ReferencePool(spec) ==
    IF spec.gpu # None THEN "gpu"
    ELSE IF HighMemory(spec) THEN "high-memory" ELSE "development"

\* C23: the pool of the node selector of every workload the operator builds
\* is the one of the reference: the accelerator pool if an accelerator is
\* requested, whatever the memory limit; otherwise high-memory if the limit
\* is at least 100 * 1024^3 bytes; otherwise development.
C23_PoolIsReference ==
    \A body \in Built("operator", "deployment") :
        body.node_selector.workload_type = ReferencePool(espec)

\* C24: a creation of the operator that runs with a spec whose memory limit
\* has no recognized form issues no create call to the cluster, and leaves
\* no object of its own there.
C24_RejectedBeforeCalls ==
    (Creating(opr) /\ ~parse_memory(espec.memory).ok) =>
        /\ opr.calls = <<>>
        /\ Built("operator", "namespace") = {}

\* C25: a descriptor that a program builds again, in a later run for the
\* same identity and the same spec, at whatever time, is the descriptor it
\* built before, in every field.
C25_Deterministic ==
    [][\A program \in DOMAIN built : \A kind \in DOMAIN built[program] :
          (built[program][kind] # <<>> /\ built'[program][kind] # <<>>)
             => built'[program][kind] = built[program][kind]]_vars

\* the ports of the flags that are enabled
EnabledPorts(spec) ==
    (IF spec.enable_ssh THEN {22} ELSE {})
    \cup (IF spec.enable_jupyter THEN {8888} ELSE {})
    \cup (IF spec.enable_vscode THEN {8080} ELSE {})

\* C26: for every combination of the three flags, the service a program
\* builds for the environment has exactly the ports of the enabled flags:
\* 22 for shell access, 8888 for the notebook, 8080 for the editor.
C26_PortsOfFlags ==
    \A program \in {"api", "operator"} : \A body \in Built(program, "service") :
        {body.ports[i].port : i \in 1..Len(body.ports)} = EnabledPorts(espec)

\* C27: the workload the operator builds has one init step per directive of
\* the spec, in the order of the directives, the i-th step installing the
\* packages of the i-th directive.
C27_InitStepPerDirective ==
    \A body \in Built("operator", "deployment") :
        /\ Len(body.init_containers) = Len(espec.packages)
        /\ \A i \in 1..Len(espec.packages) :
              body.init_containers[i].packages = espec.packages[i].packages

(***************************************************************************)
(* Claims about the handling of one notification                           *)
(***************************************************************************)
\* the handler takes a notification in this step
Takes == h.pc = "idle" /\ h'.pc # "idle"

\* the service of the notification carries an identity label, an address
HasLabel(object) == object.env_id # None

Addressed(object) ==
    /\ object.ingress # <<>>
    /\ object.ingress[1].hostname # None \/ object.ingress[1].ip # None

\* the address: the hostname of the load balancer, or else its ip
AddressOf(object) ==
    IF object.ingress[1].hostname # None
    THEN object.ingress[1].hostname ELSE object.ingress[1].ip

\* C28: for every added or modified notification with an identity label
\* and an address, the handler calls the provider with the hostname made of
\* the first 8 characters of the identity, a dot and the domain suffix, with
\* the address as target and with kind CNAME if the address ends with the
\* suffix of the cloud load balancers and A if not; the UPSERT it sends and
\* the map entry it writes carry these values.
C28_HostnameAndKind ==
    [][/\ (Takes /\ h'.event[1].type \in {"ADDED", "MODIFIED"}
             /\ HasLabel(h'.event[1].object) /\ Addressed(h'.event[1].object)) =>
             /\ h'.pc = "upsert_call"
             /\ h'.hostname = SubSeq(h'.event[1].object.env_id, 1, 8)
                                 \o <<".">> \o domain_suffix
             /\ h'.target = AddressOf(h'.event[1].object)
             /\ h'.record_type =
                   IF EndsWith(AddressOf(h'.event[1].object), ELB_SUFFIX)
                   THEN "CNAME" ELSE "A"
       /\ (h.pc = "upsert_call" /\ h'.pc = "upsert_ok") =>
             zone'[h.hostname] = <<[type |-> h.record_type, value |-> h.target]>>
       /\ (h.pc = "upsert_ok" /\ h'.pc = "upserted") =>
             /\ h' = [h EXCEPT !.pc = "upserted"]
             /\ managed_records'[FrameEnv].hostname = h.hostname
             /\ managed_records'[FrameEnv].target = h.target]_vars

\* an entry was written for identity abc12345-1 and a load-balancer
\* hostname: abc12345.<suffix>, kind CNAME
C28_Witness ==
    /\ h.pc = "upserted" /\ FrameEnv = EnvA
    /\ h.hostname = <<"a","b","c","1","2","3","4","5",".">> \o domain_suffix
    /\ h.record_type = "CNAME" /\ h.target = ElbAddr
    /\ managed_records[EnvA].hostname = h.hostname

\* what a notification that is not acted on leaves alone: the zone (no
\* accepted request), the log of requests, the failure flag (no refused
\* request) and the map
NoOp == UNCHANGED <<zone, requests, failed, managed_records, record_keys>>

\* C29: a deleted notification for a service without identity label, or for
\* an identity without entry in the map, is a no-op: the handler returns at
\* once, sends no request to the provider and leaves the map unchanged.
C29_DeleteWithoutEntryIsNoOp ==
    [][/\ (Takes /\ h'.event[1].type = "DELETED"
             /\ (~HasLabel(h'.event[1].object)
                   \/ h'.event[1].object.env_id \notin DOMAIN managed_records)) =>
             h'.pc = "skipped" /\ NoOp
       /\ (h.pc = "skipped" /\ h.event[1].type = "DELETED") =>
             h' = IdleFrame /\ NoOp]_vars

\* a deleted notification of a labelled service was skipped while the map
\* has entries, none of them for its identity
C29_Witness ==
    /\ h.pc = "skipped" /\ h.event[1].type = "DELETED"
    /\ HasLabel(h.event[1].object)
    /\ DOMAIN managed_records # {} /\ FrameEnv \notin DOMAIN managed_records

\* C30: an added or modified notification of a service without identity
\* label, or without load-balancer address, is skipped: the handler returns
\* at once, sends no request to the provider and leaves the map unchanged,
\* an existing entry of the identity included; a modified notification that
\* carries label and address is acted on, and the entry is written once the
\* provider accepted the UPSERT.
C30_SkippedUntilAddressed ==
    [][/\ (Takes /\ h'.event[1].type \in {"ADDED", "MODIFIED"}
             /\ (~HasLabel(h'.event[1].object) \/ ~Addressed(h'.event[1].object))) =>
             h'.pc = "skipped" /\ NoOp
       /\ (h.pc = "skipped" /\ h.event[1].type \in {"ADDED", "MODIFIED"}) =>
             h' = IdleFrame /\ NoOp
       /\ (Takes /\ h'.event[1].type = "MODIFIED"
             /\ HasLabel(h'.event[1].object) /\ Addressed(h'.event[1].object)) =>
             h'.pc = "upsert_call"
       /\ (h.pc = "upsert_ok" /\ h.event[1].type = "MODIFIED") =>
             FrameEnv \in DOMAIN managed_records'
                /\ managed_records'[FrameEnv].target = AddressOf(h.event[1].object)]_vars

\* a modified notification of a labelled service that lost its address was
\* skipped while the map holds the entry of its identity
C30_Witness ==
    /\ h.pc = "skipped" /\ h.event[1].type = "MODIFIED"
    /\ HasLabel(h.event[1].object) /\ ~Addressed(h.event[1].object)
    /\ FrameEnv \in DOMAIN managed_records

(***************************************************************************)
(* Claims about the map and the provider                                   *)
(***************************************************************************)
\* the handler's UPSERT was refused in this step
UpsertFails == h.pc = "upsert_call" /\ ~h'.ok

\* the entries of the map the step writes: new keys and changed values
Written ==
    {k \in DOMAIN managed_records' :
        k \notin DOMAIN managed_records
           \/ managed_records'[k].target # managed_records[k].target
           \/ managed_records'[k].hostname # managed_records[k].hostname
           \/ managed_records'[k].service # managed_records[k].service}

\* C31: when the UPSERT for an added or modified notification fails, the map
\* is left as it was and the handler returns to the watch loop, which goes
\* on; an entry is written only in the step after an UPSERT the provider
\* accepted, with the target of that request, which the zone then holds.
C31_WrittenAfterUpsert ==
    [][/\ UpsertFails =>
             /\ h'.pc = "upsert_raised"
             /\ UNCHANGED <<managed_records, record_keys, zone, wpc, stream>>
       /\ h.pc = "upsert_raised" =>
             /\ h' = IdleFrame
             /\ UNCHANGED <<managed_records, record_keys, zone, wpc, stream>>
       /\ (h.pc = "upsert_call" /\ h'.pc = "upsert_ok") =>
             /\ h'.ok
             /\ zone'[h.hostname] = <<[type |-> h.record_type, value |-> h.target]>>
       /\ Written # {} =>
             /\ h.pc = "upsert_ok" /\ h.ok
             /\ Written = {FrameEnv}
             /\ managed_records'[FrameEnv].target = h.target]_vars

\* the UPSERT of a changed address was refused while the map holds the
\* identity's entry with the previous target
C31_Witness ==
    /\ h.pc = "upsert_raised" /\ ~h.ok
    /\ FrameEnv \in DOMAIN managed_records
    /\ managed_records[FrameEnv].target # h.target

\* C32: a later added or modified notification for an identity that has an
\* entry leaves the created-at of the entry as it was: the write of the
\* handler changes target and last-updated only.
C32_CreatedAtKept ==
    [][(h.pc = "upsert_ok" /\ h'.pc = "upserted"
          /\ FrameEnv \in DOMAIN managed_records) =>
          managed_records'[FrameEnv].created_at
             = managed_records[FrameEnv].created_at]_vars

\* the cycle found the entry of env_id eligible: older than the grace
\* window, and its lookup answered not-found for a service that was gone
Eligible(env_id) ==
    \E i \in 1..Len(sw.seen) :
        /\ sw.seen[i].env_id = env_id
        /\ sw.seen[i].created_at < sw.cutoff
        /\ sw.seen[i].status = 404
        /\ sw.seen[i].gone

\* the sweeper issues a DELETE, removes an entry in this step
SweeperDeletes == spc = "delete_call" /\ Len(sw'.deletes) = Len(sw.deletes) + 1
SweeperRemoves == spc = "delete_ok" /\ DOMAIN managed_records' # DOMAIN managed_records

\* during a cycle a DELETE is issued and an entry is removed only for an
\* entry the cycle found eligible, with the hostname of that entry, and
\* every other entry stays as it is
OnlyEligible ==
    /\ SweeperDeletes =>
          /\ Eligible(Head(sw.stale_records))
          /\ sw'.deletes[Len(sw'.deletes)].env_id = Head(sw.stale_records)
          /\ sw'.deletes[Len(sw'.deletes)].name
                = managed_records[Head(sw.stale_records)].hostname
          /\ sw'.deletes[Len(sw'.deletes)].value
                = managed_records[Head(sw.stale_records)].target
    /\ SweeperRemoves =>
          /\ Eligible(Head(sw.stale_records))
          /\ DOMAIN managed_records' = DOMAIN managed_records \ {Head(sw.stale_records)}
    /\ spc \in {"scan", "clean", "delete_call", "delete_ok"} =>
          \A k \in DOMAIN managed_records' : managed_records'[k] = managed_records[k]

\* the service the removed entry names does not exist when it is removed
GoneAtRemoval ==
    SweeperRemoves =>
        ~Exists(SplitRef(managed_records[Head(sw.stale_records)].service).name)

\* C33: a sweep cycle issues a DELETE and removes an entry only for an entry
\* older than the grace window whose lookup in this cycle answered
\* not-found; an entry that is younger, whose service was found or whose
\* lookup failed otherwise stays in the map unchanged with no DELETE issued
\* from it. The service was gone when the cycle looked it up.
C33_OnlyEligibleSwept == [][OnlyEligible]_vars

\* C33 as stated: moreover the service of the entry does not exist at the
\* moment the sweeper removes the entry.
C33_GoneWhenRemoved == [][OnlyEligible /\ GoneAtRemoval]_vars

\* the sweeper is about to remove an eligible entry whose service has been
\* created again since the lookup
C33_Witness ==
    /\ spc = "delete_ok"
    /\ Eligible(Head(sw.stale_records))
    /\ Exists(SplitRef(managed_records[Head(sw.stale_records)].service).name)

(***************************************************************************)
(* From the creation of an environment to its DNS record: the creators     *)
(* (the API's background task, the operator's handler), the cluster that   *)
(* assigns an address to the created service, and the DNS controller with  *)
(* its stream open. A service the controller's selector and label key fit  *)
(* (svc-b) is created next to it.                                          *)
(***************************************************************************)
\* label_selector="app.kubernetes.io/managed-by=dev-platform"
Selects(labels) ==
    /\ "app.kubernetes.io/managed-by" \in DOMAIN labels
    /\ labels["app.kubernetes.io/managed-by"] = "dev-platform"

\* service.metadata.labels.get('environment-id')
EnvironmentId(labels) ==
    IF "environment-id" \in DOMAIN labels THEN labels["environment-id"] ELSE None

\* the cluster assigns an address to the service a creation that succeeded
\* has created; the watch delivers the change when the selector matches the
\* labels of the service, which then is the cluster's svc-x
Expose(program, ingress) ==
    /\ ~InBurst
    /\ LET run == IF program = "api" THEN api ELSE opr
           namespace == NamespaceName(run.env_id)
           labels == built[program]["service"][1].labels
           object == [ServiceObject("svc-x", ingress, clusterRV + 1)
                         EXCEPT !.env_id = EnvironmentId(labels)]
       IN  /\ Creating(run) /\ run.pc = "done"
           /\ run.calls[Len(run.calls)] = Call("create", "service", namespace, 201)
           /\ Obj("loadbalancer", namespace) \notin objects
           /\ objects' = objects \cup {Obj("loadbalancer", namespace)}
           /\ IF Selects(labels)
              THEN /\ services' = [services EXCEPT !["svc-x"] = <<object>>]
                   /\ Emit(Event("MODIFIED", object))
              ELSE UNCHANGED <<services, stream>>
    /\ clusterRV' = clusterRV + 1
    /\ UNCHANGED <<zone, managed_records, record_keys, running, wpc, streamOpen, h,
                   spc, sw, histVars, environments, bg, api, opr, resources, espec,
                   clock, built>>

InitEndToEnd ==
    /\ EnvInit
    /\ services = [s \in Services |-> <<>>]
    /\ clusterRV = 0
    /\ zone = [n \in {Hostname(e) : e \in EnvIds} |-> <<>>]
    /\ managed_records = <<>>
    /\ record_keys = <<>>
    /\ running = "watch"
    /\ wpc = "stream"
    /\ stream = <<>>
    /\ streamOpen = TRUE
    /\ h = IdleFrame
    /\ spc = "unborn"
    /\ sw = IdleSweep
    /\ recording = TRUE
    /\ requests = <<>>
    /\ applied = <<>>
    /\ failed = FALSE
    /\ handled = [s \in Services |-> 0]

EndToEndNext ==
    \/ ApiCreateRequest(EnvA)
    \/ ApiTaskStart(1)
    \/ \E status \in {201, 409, 404, 500} : ApiCreateCall(status)
    \/ ApiReturn
    \/ ResourceCreate(EnvA)
    \/ OperatorStart(EnvA)
    \/ \E status \in {201, 409, 404, 500} : OperatorCreateCall(status)
    \/ OperatorReturn
    \/ \E program \in {"api", "operator"}, ingress \in IngressLists \ {<<>>} :
          Expose(program, ingress)
    \/ \E ingress \in IngressOf("svc-b") : ClusterCreate("svc-b", ingress)
    \/ HandleEvent
    \/ \E ok \in BOOLEAN : UpsertCall(ok)
    \/ UpsertStore
    \/ HandlerReturn

EndToEndSpec == InitEndToEnd /\ [][EndToEndNext]_vars

\* the address of the environment's service is assigned and the controller
\* has nothing left to handle
Settled(env_id) ==
    /\ Obj("loadbalancer", NamespaceName(env_id)) \in objects
    /\ stream = <<>>
    /\ h.pc = "idle"

\* C34: once the service of an environment whose creation succeeded has
\* its address and the controller has handled what the watch delivered,
\* with no request refused by the provider, the map holds an entry for the
\* identity and the zone a record for its hostname.
C34_EndToEnd ==
    \A env_id \in ResourceIds :
        (Settled(env_id) /\ ~failed) =>
            /\ HasEntry(env_id)
            /\ zone[Hostname(env_id)] # <<>>

\* C35: two entries of the map for distinct identities never have the same
\* hostname.
C35_DistinctHostnames ==
    \A a \in DOMAIN managed_records, b \in DOMAIN managed_records :
        a # b => managed_records[a].hostname # managed_records[b].hostname

\* no background task of the identity is queued
NoTaskLeft(env_id) == \A i \in 1..Len(bg) : bg[i].env_id # env_id

\* C36: when the deletion task of an accepted delete request ends, the
\* cluster having answered its call, and no task of the identity is left,
\* the record is gone from the store and no namespace of the environment
\* remains, whatever the creation had reached before.
C36_DeleteTakesEffect ==
    [][(/\ api.fn = "api_delete" /\ api.pc \in {"done", "failed"}
        /\ api.calls[1].status # 500
        /\ api' = IdleTask
        /\ NoTaskLeft(api.env_id)) =>
           /\ environments'[api.env_id] \in {"absent", "removed"}
           /\ Obj("namespace", NamespaceName(api.env_id)) \notin objects']_vars

\* the sweeper's DELETE was refused in this step: an accepted one removes
\* the record from the zone
SweepDeleteFails ==
    /\ spc = "delete_call" /\ Len(sw'.deletes) = Len(sw.deletes) + 1
    /\ zone' = zone

\* C37: when the provider refuses the DELETE of a stale entry, the cycle
\* ends with the map as it was, the entry included, and the sweeper goes to
\* the sleep before its next cycle, whose iteration starts from every key
\* of the map; the sweeper removes an entry only in the step after a DELETE
\* the provider accepted for the hostname of that entry.
C37_KeptWhenDeleteFails ==
    [][/\ SweepDeleteFails =>
             /\ spc' = "raised"
             /\ UNCHANGED <<managed_records, record_keys>>
             /\ Head(sw.stale_records) \in DOMAIN managed_records
       /\ spc = "raised" =>
             /\ spc' \in {"raised", "sleep"}
             /\ UNCHANGED <<managed_records, record_keys, zone>>
       /\ (spc = "ready" /\ spc' = "scan") =>
             \A k \in DOMAIN managed_records :
                 \E i \in 1..Len(sw'.scan) : sw'.scan[i] = k
       /\ SweeperRemoves =>
             /\ sw.deletes # <<>>
             /\ sw.deletes[Len(sw.deletes)].env_id = Head(sw.stale_records)
             /\ sw.deletes[Len(sw.deletes)].name
                   = managed_records[Head(sw.stale_records)].hostname
             /\ zone[managed_records[Head(sw.stale_records)].hostname] = <<>>]_vars

\* a cycle has ended at a refused DELETE and the entry it was sent for is
\* still in the map, its record still in the zone
C37_Witness ==
    /\ spc = "raised"
    /\ sw.deletes # <<>>
    /\ sw.stale_records # <<>>
    /\ Head(sw.stale_records) \in DOMAIN managed_records
    /\ sw.deletes[Len(sw.deletes)].env_id = Head(sw.stale_records)
    /\ zone[managed_records[Head(sw.stale_records)].hostname] # <<>>

====
